---- MODULE Spec2Model ----
(***************************************************************************)
(* Model of the poker-solver decision pipeline: the hand evaluator, the    *)
(* Monte Carlo equity calculator, the outs enumeration, the pot-odds       *)
(* arithmetic and the range analyzer.                                      *)
(*                                                                         *)
(* Cards are the integers 0..51 in the order of treys' Deck.GetFullDeck(): *)
(* rank-major from deuce to ace, suits in the order s, h, d, c.            *)
(* Percentages and money amounts are exact rationals [n, d] with d > 0.    *)
(***************************************************************************)
EXTENDS Integers, Sequences, FiniteSets, TLC

(***************************************************************************)
(* Cards                                                                   *)
(***************************************************************************)
FullDeck == 0..51

Rank(c) == (c \div 4) + 2

Suit(c) == c % 4

Max(S) == CHOOSE x \in S : \A y \in S : y <= x

Min(S) == CHOOSE x \in S : \A y \in S : x <= y

Range(s) == {s[i] : i \in DOMAIN s}

(***************************************************************************)
(* treys.Evaluator, as used through self.evaluator.evaluate(board, hole):  *)
(* the score of a 5-card hand is its position, 1 (royal flush) to          *)
(* 7462 (7-5-4-3-2 offsuit), in the lookup table; 6 and 7 cards take the    *)
(* minimum over all 5-card combinations; any other size, and a 5-card      *)
(* combination that is not in the table, raises KeyError.                  *)
(***************************************************************************)
KeyError == 0

Choose(n, k) ==
    IF k < 0 \/ n < k THEN 0
    ELSE CASE k = 0 -> 1
           [] k = 1 -> n
           [] k = 2 -> (n * (n - 1)) \div 2
           [] k = 3 -> (n * (n - 1) * (n - 2)) \div 6
           [] k = 4 -> (n * (n - 1) * (n - 2) * (n - 3)) \div 24
           [] k = 5 -> (n * (n - 1) * (n - 2) * (n - 3) * (n - 4)) \div 120

\* Number of ranks of 2..14, the ranks of X left out, that lie below r.
Below(r, X) == (r - 2) - Cardinality({x \in X : x < r})

RECURSIVE CoLexRank(_, _)
CoLexRank(K, X) ==
    IF K = {} THEN 0
    ELSE LET r == Max(K)
         IN  Choose(Below(r, X), Cardinality(K)) + CoLexRank(K \ {r}, X)

\* Position (from 0) of the rank set K among the |K|-combinations of the
\* descending rank list without the ranks of X, in itertools.combinations order.
LexIdx(K, X) ==
    Choose(13 - Cardinality(X), Cardinality(K)) - 1 - CoLexRank(K, X)

StraightSets == {(h - 4)..h : h \in 6..14} \cup {{14, 2, 3, 4, 5}}

StraightHigh(RS) == IF RS = {14, 2, 3, 4, 5} THEN 5 ELSE Max(RS)

\* Position (from 0) of a five-rank set that is no straight among the 1277
\* such sets, strongest first (the order of the flush and high-card tables):
\* its position among all five-rank sets less the straights before it, which
\* are those with a high card of at least Max(RS) and, below the ace, the wheel.
HighIdx(RS) ==
    LET m == Max(RS)
    IN  LexIdx(RS, {}) - (15 - m) - (IF m < 14 THEN 1 ELSE 0)

\* The score of the five cards at the positions P of the list cards.
Five(cards, P) ==
    LET RS     == {Rank(cards[i]) : i \in P}
        n      == Cardinality(RS)
        cnt(r) == Cardinality({i \in P : Rank(cards[i]) = r})
        G(k)   == {r \in RS : cnt(r) = k}
    IN  IF Cardinality({Suit(cards[i]) : i \in P}) = 1
        THEN \* flush_lookup, keyed by the OR of the rank bits
             IF n # 5 THEN KeyError
             ELSE IF RS \in StraightSets THEN 1 + (14 - StraightHigh(RS))
             ELSE 323 + HighIdx(RS)
        ELSE \* unsuited_lookup, keyed by the product of the rank primes
             CASE n = 5 ->
                    IF RS \in StraightSets THEN 1600 + (14 - StraightHigh(RS))
                    ELSE 6186 + HighIdx(RS)
               [] n = 4 ->
                    LET p == Max(G(2))
                    IN  3326 + (14 - p) * 220 + LexIdx(RS \ {p}, {p})
               [] n = 3 /\ G(3) # {} ->
                    LET t == Max(G(3))
                    IN  1610 + (14 - t) * 66 + LexIdx(RS \ {t}, {t})
               [] n = 3 ->
                    LET k == Max(G(1))
                    IN  2468 + LexIdx(RS \ {k}, {}) * 11 + LexIdx({k}, RS \ {k})
               [] n = 2 /\ G(4) # {} ->
                    LET q == Max(G(4))
                    IN  11 + (14 - q) * 12 + LexIdx(RS \ {q}, {q})
               [] n = 2 ->
                    LET t == Max(G(3))
                    IN  167 + (14 - t) * 12 + LexIdx(RS \ {t}, {t})
               [] OTHER -> KeyError

\* itertools.combinations(all_cards, 5), as sets of positions in the list.
Combinations5(n) == {P \in SUBSET (1..n) : Cardinality(P) = 5}

TreysEvaluate(all_cards) ==
    IF Len(all_cards) \notin {5, 6, 7} THEN KeyError
    ELSE LET scores == {Five(all_cards, P) : P \in Combinations5(Len(all_cards))}
         IN  IF KeyError \in scores THEN KeyError ELSE Min(scores)

(***************************************************************************)
(* Exact arithmetic: a float is modelled by the rational [n, d], d > 0.    *)
(***************************************************************************)
RECURSIVE Gcd(_, _)
Gcd(a, b) == IF b = 0 THEN a ELSE Gcd(b, a % b)

Abs(x) == IF x < 0 THEN 0 - x ELSE x

\* n / d in lowest terms.
Rat(n, d) ==
    LET g == Gcd(Abs(n), d)
    IN  [n |-> n \div g, d |-> d \div g]

RatEq(x, y) == x.n * y.d = y.n * x.d

RatLeq(x, y) == x.n * y.d <= y.n * x.d

RatLess(x, y) == x.n * y.d < y.n * x.d

RatAdd(x, y) == Rat(x.n * y.d + y.n * x.d, x.d * y.d)

RatSub(x, y) == Rat(x.n * y.d - y.n * x.d, x.d * y.d)

RatMul(x, y) == Rat(x.n * y.n, x.d * y.d)

\* The list of the elements of a set of integers, ascending.
RECURSIVE Asc(_)
Asc(S) == IF S = {} THEN <<>> ELSE <<Min(S)>> \o Asc(S \ {Min(S)})

Pairs(S) == {P \in SUBSET S : Cardinality(P) = 2}

VARIABLES
    he,     \* HandEvaluator: the last evaluate() call and its outcome
    eq,     \* EquityCalculator: the running or last call
    po,     \* PotOddsCalculator: the last call and its outcome
    ra,     \* RangeAnalyzer: the range tracked for one opponent and the last update
    ch,     \* PreflopCharts: the last call of a chart function and its outcome
    ad,     \* GTOAdvisor: its charts, the last game state and the recommendation
    ls      \* LiveSession: the current hand and the board last handed on

vars == <<he, eq, po, ra, ch, ad, ls>>

(***************************************************************************)
(* HandEvaluator (src/core/hand_evaluator.py)                              *)
(***************************************************************************)
\* Card.new(): the card of a rank 2..14 and a suit 0..3 (s, h, d, c).
CardNew(rank, suit) == (rank - 2) * 4 + suit

\* The outcome of a call: a returned value, or the exception it raised.
Returned(v) == [raised |-> "none", value |-> v]

Raised(e) == [raised |-> e, value |-> 0]

HE_evaluate(hole_cards, board) ==
    LET score == TreysEvaluate(board \o hole_cards)
    IN  IF score = KeyError THEN Raised("KeyError") ELSE Returned(score)

HEIdle == [pc |-> "idle", hole_cards |-> <<>>, board |-> <<>>, result |-> Returned(0)]

\* The cards the evaluator is called with in this model.
EvalPoolSize == 7

EvalPool ==
    LET all == <<CardNew(14, 0), CardNew(13, 0), CardNew(12, 0), CardNew(11, 0),
                 CardNew(10, 0), CardNew(14, 1), CardNew(13, 2), CardNew(2, 3),
                 CardNew(2, 1), CardNew(7, 2)>>
    IN  {all[i] : i \in 1..EvalPoolSize}

\* Hole lists of 1 to 3 cards with a board of the remaining chosen cards, and
\* the same with the first hole card repeated at the end of the board.
EvalInputs ==
    LET split(S, h) == [hole_cards |-> SubSeq(Asc(S), 1, h),
                        board |-> SubSeq(Asc(S), h + 1, Cardinality(S))]
        plain == {split(S, h) : S \in {T \in SUBSET EvalPool : Cardinality(T) >= 3},
                                h \in 1..3}
    IN  plain \cup {[x EXCEPT !.board = Append(@, x.hole_cards[1])] : x \in plain}

Evaluate ==
    /\ he.pc = "idle"
    /\ \E x \in EvalInputs :
         he' = [pc |-> "evaluated", hole_cards |-> x.hole_cards, board |-> x.board,
                result |-> HE_evaluate(x.hole_cards, x.board)]
    /\ UNCHANGED <<eq, po, ra, ch, ad, ls>>

(***************************************************************************)
(* EquityCalculator (src/core/equity_calculator.py)                        *)
(***************************************************************************)
\* Deck.GetFullDeck(), cut to its first DeckSize cards in the simulations.
DeckSize == 11

SimDeck == 0..(DeckSize - 1)

MaxIterations == 2

MaxOpponents == 3

\* float('inf'): above every score.
Infinity == 7463

Percent(count, total) == Rat(count * 100, total)

EQIdle ==
    [pc |-> "idle", fn |-> "none", hole_cards |-> <<>>, board |-> <<>>,
     num_opponents |-> 0, valid_range |-> {}, iterations |-> 0, done |-> 0,
     wins |-> 0, ties |-> 0, losses |-> 0,
     sim_board |-> <<>>, opp_holes |-> <<>>, last |-> "none",
     result |-> Returned(0)]

POIdle ==
    [pc |-> "idle", fn |-> "none", pot_size |-> 0, call_amount |-> 0,
     equity |-> Rat(0, 1), result |-> Rat(0, 1)]

RAIdle ==
    [pc |-> "idle", current_range |-> {}, action |-> [street |-> "none"],
     hands |-> {}, combos |-> 0]

CHIdle ==
    [pc |-> "idle", fn |-> "none", card1 |-> <<>>, card2 |-> <<>>, result |-> <<>>]

\* No advisor has been constructed.
ADIdle == [pc |-> "none"]

\* LiveSession(): no hand yet, nothing shown.
LSIdle == [hand |-> <<>>, shown |-> <<>>, raised |-> "none"]

Init ==
    /\ he = HEIdle
    /\ eq = EQIdle
    /\ po = POIdle
    /\ ra = RAIdle
    /\ ch = CHIdle
    /\ ad = ADIdle
    /\ ls = LSIdle

\* The inputs of the simulated calls: one hero hand, the boards of the river,
\* the turn and the flop, and opponent ranges of concrete two-card combos.
HoleInputs == {<<CardNew(4, 0), CardNew(3, 0)>>, <<CardNew(2, 0), CardNew(2, 1)>>}

BoardInputs ==
    LET river == <<CardNew(3, 1), CardNew(3, 2), CardNew(4, 1), CardNew(2, 2), CardNew(2, 3)>>
    IN  {SubSeq(river, 1, k) : k \in 3..5}

RangeInputs ==
    {<<>>,
     <<<<CardNew(4, 0), CardNew(4, 2)>>, <<CardNew(3, 1), CardNew(3, 3)>>>>,
     <<<<CardNew(4, 2), CardNew(4, 3)>>, <<CardNew(3, 0), CardNew(3, 3)>>,
       <<CardNew(2, 0), CardNew(4, 3)>>, <<CardNew(2, 1), CardNew(3, 3)>>>>}

\* random.shuffle(deck), then the slices the trial reads: the board cards and
\* the opponents' holes are any distinct cards of the deck; each slice is
\* listed in ascending order.
\* HoleDeals without "deck_idx += 2": every opponent reads the same two cards.
HoleDealsSameSlice(deck, n) ==
    {[j \in 1..n |-> Asc(h)] : h \in Pairs(deck)}

RECURSIVE HoleDeals(_, _)
HoleDeals(deck, n) ==
    IF n = 0 THEN {<<>>}
    ELSE UNION {{<<Asc(h)>> \o rest : rest \in HoleDeals(deck \ h, n - 1)} :
                   h \in Pairs(deck)}

BoardDeals(deck, cards_needed) ==
    LET k == IF cards_needed <= Cardinality(deck) THEN cards_needed
             ELSE Cardinality(deck)
    IN  {Asc(B) : B \in {T \in SUBSET deck : Cardinality(T) = k}}

\* best_opponent_score taken with max: the weakest opponent's score.
WeakestOpponentScore(scores) ==
    IF scores = <<>> THEN Infinity ELSE Max(Range(scores))

\* min(best_opponent_score, opp_score) over the opponents' scores.
BestOpponentScore(scores) ==
    IF scores = <<>> THEN Infinity ELSE Min(Range(scores) \cup {Infinity})

\* The counter a trial increments (lower score is stronger).
Outcome(my_score, best_opponent_score) ==
    IF my_score < best_opponent_score THEN "win"
    ELSE IF my_score > best_opponent_score THEN "loss"
    ELSE "tie"

\* Tally with "if" for "elif": a win falls through to the tie counter too.
TallyFallsThrough(e, outcome) ==
    [e EXCEPT !.wins   = IF outcome = "win" THEN @ + 1 ELSE @,
              !.losses = IF outcome = "loss" THEN @ + 1 ELSE @,
              !.ties   = IF outcome # "loss" THEN @ + 1 ELSE @]

Tally(e, outcome) ==
    [e EXCEPT !.wins   = IF outcome = "win" THEN @ + 1 ELSE @,
              !.losses = IF outcome = "loss" THEN @ + 1 ELSE @,
              !.ties   = IF outcome = "tie" THEN @ + 1 ELSE @]

\* The dict both entry points return after the loop; total = 0 divides by zero.
EquityResult(wins, ties, losses) ==
    LET total == wins + ties + losses
    IN  IF total = 0 THEN Raised("ZeroDivisionError")
        ELSE Returned([win |-> Percent(wins, total), tie |-> Percent(ties, total),
                       lose |-> Percent(losses, total), iterations |-> total])

Neutral ==
    Returned([win |-> Rat(50, 1), tie |-> Rat(0, 1), lose |-> Rat(50, 1),
              iterations |-> 0])

UsedCards(e) == Range(e.hole_cards) \cup Range(e.board)

\* calculate_equity: entry, up to the loop.
CallCalculateEquity ==
    /\ eq.pc = "idle"
    /\ \E hole \in HoleInputs, board \in BoardInputs,
          n \in 0..MaxOpponents, iters \in 0..MaxIterations :
         eq' = [EQIdle EXCEPT !.pc = "loop", !.fn = "calculate_equity",
                              !.hole_cards = hole, !.board = board,
                              !.num_opponents = n, !.iterations = iters]
    /\ UNCHANGED <<he, po, ra, ch, ad, ls>>

\* One pass of the loop of calculate_equity, up to the draw of the cards.
EquityDeal ==
    /\ eq.pc = "loop" /\ eq.fn = "calculate_equity"
    /\ eq.done < eq.iterations
    /\ LET available == SimDeck \ UsedCards(eq)
       IN  \E drawn \in BoardDeals(available, 5 - Len(eq.board)) :
             LET rest == available \ Range(drawn)
             IN  IF Cardinality(rest) < 2 * eq.num_opponents
                 THEN eq' = [eq EXCEPT !.pc = "raised",
                                       !.sim_board = eq.board \o drawn,
                                       !.result = Raised("IndexError")]
                 ELSE \E holes \in HoleDeals(rest, eq.num_opponents) :
                        eq' = [eq EXCEPT !.pc = "dealt",
                                         !.sim_board = eq.board \o drawn,
                                         !.opp_holes = holes]
    /\ UNCHANGED <<he, po, ra, ch, ad, ls>>

\* The rest of the pass: the evaluations and the counters. The cards of the
\* pass are dead once it ends; last is the counter it incremented.
EquityScore ==
    /\ eq.pc = "dealt"
    /\ LET my_score == TreysEvaluate(eq.sim_board \o eq.hole_cards)
           scores   == [j \in DOMAIN eq.opp_holes |->
                           TreysEvaluate(eq.sim_board \o eq.opp_holes[j])]
           best     == BestOpponentScore(scores)
       IN  IF my_score = KeyError \/ KeyError \in Range(scores)
           THEN eq' = [eq EXCEPT !.pc = "raised", !.result = Raised("KeyError")]
           ELSE eq' = [Tally(eq, Outcome(my_score, best)) EXCEPT
                          !.pc = "loop", !.done = @ + 1,
                          !.sim_board = <<>>, !.opp_holes = <<>>,
                          !.last = Outcome(my_score, best)]
    /\ UNCHANGED <<he, po, ra, ch, ad, ls>>

\* After the loop: the percentages.
EquityReturn ==
    /\ eq.pc = "loop"
    /\ eq.done = eq.iterations
    /\ LET r == EquityResult(eq.wins, eq.ties, eq.losses)
       IN  eq' = [eq EXCEPT !.pc = IF r.raised = "none" THEN "done" ELSE "raised",
                            !.result = r]
    /\ UNCHANGED <<he, po, ra, ch, ad, ls>>

ValidRange(opponent_range, used_cards) ==
    {opponent_range[i] : i \in {j \in DOMAIN opponent_range :
        /\ opponent_range[j][1] \notin used_cards
        /\ opponent_range[j][2] \notin used_cards}}

\* calculate_equity_vs_range: entry, the two early returns, up to the loop.
CallCalculateEquityVsRange ==
    /\ eq.pc = "idle"
    /\ \E hole \in HoleInputs, board \in BoardInputs,
          opponent_range \in RangeInputs, iters \in 0..MaxIterations :
         LET call  == [EQIdle EXCEPT !.fn = "calculate_equity_vs_range",
                                     !.hole_cards = hole, !.board = board,
                                     !.num_opponents = 1, !.iterations = iters]
             valid == ValidRange(opponent_range, UsedCards(call))
         IN  IF opponent_range = <<>> \/ valid = {}
             THEN eq' = [call EXCEPT !.pc = "done", !.result = Neutral]
             ELSE eq' = [call EXCEPT !.pc = "loop", !.valid_range = valid]
    /\ UNCHANGED <<he, po, ra, ch, ad, ls>>

\* One pass of the loop of calculate_equity_vs_range, up to the draw.
VsRangeDeal ==
    /\ eq.pc = "loop" /\ eq.fn = "calculate_equity_vs_range"
    /\ eq.done < eq.iterations
    /\ \E opp_hole \in eq.valid_range :
         LET available == SimDeck \ (UsedCards(eq) \cup Range(opp_hole))
         IN  \E drawn \in BoardDeals(available, 5 - Len(eq.board)) :
               eq' = [eq EXCEPT !.pc = "dealt",
                                !.sim_board = eq.board \o drawn,
                                !.opp_holes = <<opp_hole>>]
    /\ UNCHANGED <<he, po, ra, ch, ad, ls>>

\* The hands calculate_outs is called with: three hero hands, and the flops,
\* turns and rivers made of OutsBoardPool.
OutsHoleInputs ==
    {<<CardNew(2, 1), CardNew(2, 2)>>, <<CardNew(14, 1), CardNew(13, 2)>>,
     <<CardNew(14, 0), CardNew(9, 0)>>}

OutsBoardPool ==
    {CardNew(13, 0), CardNew(12, 2), CardNew(11, 3), CardNew(11, 0), CardNew(7, 0),
     CardNew(3, 1)}

OutsBoardInputs ==
    {Asc(B) : B \in {T \in SUBSET OutsBoardPool : Cardinality(T) \in 3..5}}

\* The cards calculate_outs appends to improving_cards, in deck order: the
\* board gets the card and, when that makes fewer than 5, the first other
\* available card as well.
ImprovingCards(hole_cards, board, available, current_score) ==
    LET first  == Min(available)
        second == Min(available \ {first})
        \* remaining[0], remaining the available cards without card
        remaining0(card) == IF card = first THEN second ELSE first
        test_board(card) ==
            IF Len(board) + 1 < 5
            THEN board \o <<card, remaining0(card)>>
            ELSE board \o <<card>>
        new_score(card) == TreysEvaluate(SubSeq(test_board(card), 1, 5) \o hole_cards)
    IN  {card \in available : new_score(card) < current_score}

CalculateOuts ==
    /\ eq.pc = "idle"
    /\ \E hole \in OutsHoleInputs, board \in OutsBoardInputs :
         LET call == [EQIdle EXCEPT !.pc = "done", !.fn = "calculate_outs",
                                    !.hole_cards = hole, !.board = board]
             available == FullDeck \ UsedCards(call)
             current_score == TreysEvaluate(board \o hole)
         IN  IF Len(board) >= 5
             THEN eq' = [call EXCEPT !.result =
                            Returned([outs |-> 0, cards |-> {}, current_score |-> 0])]
             ELSE IF current_score = KeyError
             THEN eq' = [call EXCEPT !.pc = "raised", !.result = Raised("KeyError")]
             ELSE LET improving_cards ==
                          ImprovingCards(hole, board, available, current_score)
                  IN  eq' = [call EXCEPT !.result =
                                Returned([outs |-> Cardinality(improving_cards),
                                          cards |-> improving_cards,
                                          current_score |-> current_score])]
    /\ UNCHANGED <<he, po, ra, ch, ad, ls>>

(***************************************************************************)
(* PotOddsCalculator (src/core/pot_odds.py)                                *)
(***************************************************************************)
\* calculate_pot_odds without "* 100": a fraction, not a percentage.
calculate_pot_odds_fraction(pot_size, call_amount) ==
    IF call_amount <= 0 THEN Rat(0, 1)
    ELSE Rat(call_amount, pot_size + call_amount)

calculate_pot_odds(pot_size, call_amount) ==
    IF call_amount <= 0 THEN Rat(0, 1)
    ELSE LET total_pot == pot_size + call_amount
         IN  Rat(call_amount * 100, total_pot)

calculate_required_equity(pot_size, call_amount) ==
    calculate_pot_odds(pot_size, call_amount)

\* equity is a percentage; include_call_in_pot has its default, False.
calculate_ev(equity, pot_size, call_amount) ==
    LET equity_decimal == RatMul(equity, Rat(1, 100))
        win_amount     == pot_size + call_amount
    IN  RatSub(RatMul(equity_decimal, Rat(win_amount, 1)),
               RatMul(RatSub(Rat(1, 1), equity_decimal), Rat(call_amount, 1)))

\* Amounts of money are multiples of 50 up to 50 * MaxBets.
MaxBets == 4

PotInputs == {50 * k : k \in 0..MaxBets}

CallInputs == {50 * k : k \in (0 - 1)..MaxBets}

\* Equities: every tenth percentage, 0.5 and the required equity of the call.
EquityInputs(pot_size, call_amount) ==
    {Rat(10 * k, 1) : k \in 0..10}
        \cup {Rat(1, 2), calculate_required_equity(pot_size, call_amount)}

CalculatePotOdds ==
    /\ po.pc = "idle"
    /\ \E pot_size \in PotInputs, call_amount \in CallInputs :
         po' = [POIdle EXCEPT !.pc = "done", !.fn = "calculate_pot_odds",
                              !.pot_size = pot_size, !.call_amount = call_amount,
                              !.result = calculate_pot_odds(pot_size, call_amount)]
    /\ UNCHANGED <<he, eq, ra, ch, ad, ls>>

CalculateRequiredEquity ==
    /\ po.pc = "idle"
    /\ \E pot_size \in PotInputs, call_amount \in CallInputs :
         po' = [POIdle EXCEPT !.pc = "done", !.fn = "calculate_required_equity",
                              !.pot_size = pot_size, !.call_amount = call_amount,
                              !.result = calculate_required_equity(pot_size, call_amount)]
    /\ UNCHANGED <<he, eq, ra, ch, ad, ls>>

CalculateEv ==
    /\ po.pc = "idle"
    /\ \E pot_size \in PotInputs, call_amount \in CallInputs :
         \E equity \in EquityInputs(pot_size, call_amount) :
           po' = [POIdle EXCEPT !.pc = "done", !.fn = "calculate_ev",
                                !.pot_size = pot_size, !.call_amount = call_amount,
                                !.equity = equity,
                                !.result = calculate_ev(equity, pot_size, call_amount)]
    /\ UNCHANGED <<he, eq, ra, ch, ad, ls>>

NextPotOdds ==
    \/ CalculatePotOdds
    \/ CalculateRequiredEquity
    \/ CalculateEv

(***************************************************************************)
(* RangeAnalyzer (src/strategy/range_analysis.py). A starting hand such as *)
(* "AKs" is the tuple of its characters, <<"A", "K", "s">>.                *)
(***************************************************************************)
None == <<>>

Some(v) == <<v>>

premium ==
    <<<<"A", "A">>, <<"K", "K">>, <<"Q", "Q">>, <<"A", "K", "s">>, <<"J", "J">>,
      <<"A", "K", "o">>, <<"A", "Q", "s">>, <<"T", "T">>, <<"A", "Q", "o">>, <<"A", "J", "s">>>>

strong ==
    <<<<"9", "9">>, <<"A", "T", "s">>, <<"A", "J", "o">>, <<"K", "Q", "s">>, <<"8", "8">>,
      <<"K", "J", "s">>, <<"A", "T", "o">>, <<"A", "9", "s">>, <<"K", "Q", "o">>, <<"7", "7">>,
      <<"K", "T", "s">>, <<"A", "8", "s">>, <<"Q", "J", "s">>, <<"A", "5", "s">>, <<"6", "6">>,
      <<"A", "7", "s">>, <<"K", "J", "o">>, <<"A", "4", "s">>, <<"A", "9", "o">>, <<"Q", "T", "s">>>>

medium ==
    <<<<"A", "6", "s">>, <<"5", "5">>, <<"A", "3", "s">>, <<"K", "T", "o">>, <<"J", "T", "s">>,
      <<"Q", "J", "o">>, <<"A", "8", "o">>, <<"A", "2", "s">>, <<"K", "9", "s">>, <<"4", "4">>,
      <<"A", "7", "o">>, <<"K", "8", "s">>, <<"A", "5", "o">>, <<"Q", "9", "s">>, <<"J", "9", "s">>,
      <<"Q", "T", "o">>, <<"3", "3">>, <<"A", "6", "o">>, <<"K", "7", "s">>, <<"A", "4", "o">>,
      <<"J", "T", "o">>, <<"T", "9", "s">>, <<"K", "9", "o">>, <<"A", "3", "o">>, <<"K", "6", "s">>,
      <<"2", "2">>, <<"Q", "8", "s">>, <<"K", "5", "s">>, <<"A", "2", "o">>, <<"J", "8", "s">>>>

\* _generate_hand_rankings: rank 1 for the first hand of premium, counting on.
hand_rankings == premium \o strong \o medium

\* The rank of a hand that is not in the table.
UnrankedRank == 100

get_hand_strength_rank(hand) ==
    IF \E i \in DOMAIN hand_rankings : hand_rankings[i] = hand
    THEN CHOOSE i \in DOMAIN hand_rankings : hand_rankings[i] = hand
    ELSE UnrankedRank

\* Hand.from_string
HandFromString(hand_str) ==
    IF Len(hand_str) = 2
    THEN [card1 |-> hand_str[1], card2 |-> hand_str[2], suited |-> FALSE]
    ELSE [card1 |-> hand_str[1], card2 |-> hand_str[2],
          suited |-> hand_str[3] \in {"s", "S"}]

\* RangeEstimate._count_combos
RECURSIVE CountCombos(_)
CountCombos(hands) ==
    IF hands = {} THEN 0
    ELSE LET hand == CHOOSE x \in hands : TRUE
             hd   == HandFromString(hand)
         IN  (IF hd.card1 = hd.card2 THEN 6 ELSE IF hd.suited THEN 4 ELSE 12)
                 + CountCombos(hands \ {hand})

RangeEstimate(hands) == [hands |-> hands, combos |-> CountCombos(hands)]

\* PlayerAction.bet_size_ratio
bet_size_ratio(action) ==
    IF /\ action.amount # None /\ action.amount[1] # 0
       /\ action.pot_size # None /\ action.pot_size[1] # 0
       /\ action.pot_size[1] > 0
    THEN Some(Rat(action.amount[1], action.pot_size[1]))
    ELSE None

\* "x if x else current_range"
OrCurrent(filtered, current_range) ==
    IF filtered # {} THEN filtered ELSE current_range

\* MediumHands with the bounds of the band included.
MediumHandsInclusive(current_range) ==
    {hd \in current_range : 10 <= get_hand_strength_rank(hd)
                              /\ get_hand_strength_rank(hd) <= 50}

MediumHands(current_range) ==
    {hd \in current_range : 10 < get_hand_strength_rank(hd)
                              /\ get_hand_strength_rank(hd) < 50}

StrongHands(current_range) ==
    {hd \in current_range : get_hand_strength_rank(hd) <= 30}

\* BluffHands without the test for a suited hand.
BluffHandsAnySuit(current_range) ==
    {hd \in current_range : hd[1] = "A" /\ hd[2] \in {"5", "4", "3", "2"}}

\* BluffHands as a fixed list, whether or not the range holds the hands.
BluffHandsFixed(current_range) ==
    {<<"A", "5", "s">>, <<"A", "4", "s">>, <<"A", "3", "s">>, <<"A", "2", "s">>}

BluffHands(current_range) ==
    {hd \in current_range :
        hd[Len(hd)] = "s" /\ hd[1] = "A" /\ hd[2] \in {"5", "4", "3", "2"}}

\* PremiumHands with the bound of the medium band.
PremiumHandsWide(current_range) ==
    {hd \in current_range : get_hand_strength_rank(hd) <= 50}

PremiumHands(current_range) ==
    {hd \in current_range : get_hand_strength_rank(hd) <= 15}

\* sorted(range_hands, key=rank)[:target_size]: the sort is stable and the
\* order of a set's hands is not fixed, so hands of equal rank may come in
\* any order; every possible result is listed.
TopHands(range_hands, target_size) ==
    LET size == IF target_size < Cardinality(range_hands) THEN target_size
                ELSE Cardinality(range_hands)
    IN  {T \in SUBSET range_hands :
            /\ Cardinality(T) = size
            /\ \A a \in T, b \in range_hands \ T :
                 get_hand_strength_rank(a) <= get_hand_strength_rank(b)}

\* int(x) of a rational x >= 0
IntPart(x) == x.n \div x.d

\* _filter_top_percentage without the floor of one hand.
_filter_top_percentage_no_floor(range_hands, percentage) ==
    TopHands(range_hands,
             IntPart(RatMul(Rat(Cardinality(range_hands), 1), percentage)))

_filter_top_percentage(range_hands, percentage) ==
    LET int_size    == IntPart(RatMul(Rat(Cardinality(range_hands), 1), percentage))
        target_size == IF int_size > 1 THEN int_size ELSE 1
    IN  TopHands(range_hands, target_size)

\* Each update returns the set of the ranges it may return.
_update_preflop_range(current_range, action, position, profile) ==
    CASE action.action_type = "FOLD" -> {{}}
      [] action.action_type = "CALL" ->
           {OrCurrent(MediumHands(current_range), current_range)}
      [] action.action_type \in {"RAISE", "BET"} ->
           {OrCurrent(StrongHands(current_range) \cup BluffHands(current_range),
                      current_range)}
      [] action.action_type = "ALL_IN" ->
           {OrCurrent(PremiumHands(current_range), current_range)}
      [] OTHER -> {current_range}

\* PostflopBetRange with a pot-sized bet assumed when the ratio is missing.
PostflopBetRangeDefaultPot(current_range, action) ==
    LET ratio     == bet_size_ratio(action)
        bet_ratio == IF ratio = None \/ ratio[1].n = 0 THEN Rat(1, 1) ELSE ratio[1]
    IN  IF RatLeq(Rat(1, 1), bet_ratio)
        THEN LET inverse == Rat(bet_ratio.d, bet_ratio.n + bet_ratio.d)
                 strong_percentage ==
                     IF RatLess(inverse, Rat(1, 2)) THEN inverse ELSE Rat(1, 2)
             IN  _filter_top_percentage(current_range, strong_percentage)
        ELSE {current_range}

PostflopBetRange(current_range, action) ==
    LET ratio     == bet_size_ratio(action)
        bet_ratio == IF ratio = None \/ ratio[1].n = 0 THEN Rat(1, 2) ELSE ratio[1]
    IN  IF RatLeq(Rat(1, 1), bet_ratio)
        THEN LET inverse == Rat(bet_ratio.d, bet_ratio.n + bet_ratio.d)
                 strong_percentage ==
                     IF RatLess(inverse, Rat(1, 2)) THEN inverse ELSE Rat(1, 2)
             IN  _filter_top_percentage(current_range, strong_percentage)
        ELSE {current_range}

\* _update_postflop_range without its FOLD branch.
_update_postflop_range_no_fold(current_range, action, board, profile) ==
    IF action.action_type \in {"BET", "RAISE"}
    THEN PostflopBetRange(current_range, action)
    ELSE {current_range}

_update_postflop_range(current_range, action, board, profile) ==
    CASE action.action_type = "FOLD" -> {{}}
      [] action.action_type = "CHECK" -> {current_range}
      [] action.action_type = "CALL" -> {current_range}
      [] action.action_type \in {"BET", "RAISE"} ->
           PostflopBetRange(current_range, action)
      [] OTHER -> {current_range}

estimate_range_after_action(current_range, action, position, board, profile) ==
    IF current_range = {} THEN {{}}
    ELSE IF action.street = "PREFLOP"
    THEN _update_preflop_range(current_range, action, position, profile)
    ELSE _update_postflop_range(current_range, action, board, profile)

\* The hands the tracked ranges are made of.
RangePoolSize == 6

RangePool ==
    LET all == <<<<"A", "A">>, <<"A", "J", "s">>, <<"9", "9">>, <<"A", "3", "s">>, <<"A", "4", "o">>, <<"7", "2", "o">>,
                <<"8", "3", "o">>, <<"K", "7", "s">>, <<"8", "8">>, <<"K", "J", "s">>, <<"Q", "T", "s">>, <<"A", "6", "s">>>>
    IN  {all[i] : i \in 1..RangePoolSize}

Streets == {"PREFLOP", "FLOP", "RIVER"}

\* The position and the profile of the observed player: under the gun with no
\* profile, or on the button with PlayerProfile.tight_passive().
PlayerInputs ==
    {[position |-> "UTG", profile |-> None],
     [position |-> "BTN", profile |-> Some([vpip |-> 18, pfr |-> 10])]}

\* The observed actions: bets and raises with and without an amount and a pot.
ActionInputs ==
    {[street |-> st, action_type |-> ty, amount |-> None, pot_size |-> None] :
        st \in Streets, ty \in {"FOLD", "CHECK", "CALL", "BET", "RAISE", "ALL_IN"}}
    \cup
    {[street |-> st, action_type |-> ty, amount |-> Some(am), pot_size |-> Some(pt)] :
        st \in Streets, ty \in {"BET", "RAISE"}, am \in {50, 100, 300},
        pt \in {0, 100}}

\* The caller starts to track an opponent with some range.
TrackRange ==
    /\ ra.pc = "idle"
    /\ \E hands \in SUBSET RangePool :
         ra' = [pc |-> "tracking", current_range |-> hands,
                action |-> [street |-> "none"],
                hands |-> hands, combos |-> RangeEstimate(hands).combos]
    /\ UNCHANGED <<he, eq, po, ch, ad, ls>>

\* The caller passes the tracked range and an observed action and keeps
\* the returned estimate.
ObserveAction ==
    /\ ra.pc \in {"tracking", "updated"}
    /\ \E action \in ActionInputs, player \in PlayerInputs :
         \E hands \in estimate_range_after_action(ra.hands, action, player.position,
                                                   None, player.profile) :
           ra' = [pc |-> "updated", current_range |-> ra.hands, action |-> action,
                  hands |-> RangeEstimate(hands).hands,
                  combos |-> RangeEstimate(hands).combos]
    /\ UNCHANGED <<he, eq, po, ch, ad, ls>>

NextRange ==
    \/ TrackRange
    \/ ObserveAction

(***************************************************************************)
(* PreflopCharts and the opening range                                     *)
(***************************************************************************)
RANKS == <<"A", "K", "Q", "J", "T", "9", "8", "7", "6", "5", "4", "3", "2">>

\* _get_all_hands: the hands the outer loop appends for the rank at index i,
\* the pair first, then the suited and the offsuit hand with each lower rank.
HandsOfRow(i) ==
    [k \in 1..(1 + 2 * (Len(RANKS) - i)) |->
        IF k = 1 THEN <<RANKS[i], RANKS[i]>>
        ELSE <<RANKS[i], RANKS[i + (k \div 2)], IF k % 2 = 0 THEN "s" ELSE "o">>]

RECURSIVE AllHandsUpTo(_)
AllHandsUpTo(i) ==
    IF i = 0 THEN <<>> ELSE AllHandsUpTo(i - 1) \o HandsOfRow(i)

_get_all_hands == AllHandsUpTo(Len(RANKS))

\* sorted(list, key=rank): a stable sort, the hands of one rank keep their order.
RECURSIVE SortedUpTo(_, _)
SortedUpTo(hands, rank) ==
    IF rank = 0 THEN <<>>
    ELSE SortedUpTo(hands, rank - 1)
            \o SelectSeq(hands, LAMBDA hd : get_hand_strength_rank(hd) = rank)

sorted_all_hands == SortedUpTo(_get_all_hands, UnrankedRank)

\* sorted(set, key=rank)[:target_size] as a set: the order of a set's hands
\* of equal rank is not fixed, so every possible result is listed.
SortedPrefix(range_hands, target_size) ==
    IF target_size >= Cardinality(range_hands) THEN {range_hands}
    ELSE LET upto(r) == {hd \in range_hands : get_hand_strength_rank(hd) <= r}
             cut     == Min({r \in 1..UnrankedRank : Cardinality(upto(r)) >= target_size})
             sure    == upto(cut - 1)
             tied    == upto(cut) \ sure
         IN  {sure \cup T : T \in {X \in SUBSET tied :
                                       Cardinality(X) = target_size - Cardinality(sure)}}

\* _init_default_ranges: the chart used when no range file is found.
DefaultOpen ==
    [UTG |-> {<<"A", "A">>, <<"K", "K">>, <<"Q", "Q">>, <<"J", "J">>, <<"T", "T">>,
              <<"9", "9">>, <<"8", "8">>,
              <<"A", "K", "s">>, <<"A", "Q", "s">>, <<"A", "J", "s">>, <<"A", "T", "s">>,
              <<"A", "K", "o">>, <<"A", "Q", "o">>,
              <<"K", "Q", "s">>, <<"K", "J", "s">>, <<"Q", "J", "s">>, <<"J", "T", "s">>},
     BTN |-> {<<r, r>> : r \in Range(RANKS)}
             \cup {<<"A", k, "s">> : k \in Range(RANKS) \ {"A"}}
             \cup {<<"A", "K", "o">>, <<"A", "Q", "o">>, <<"A", "J", "o">>,
                   <<"A", "T", "o">>, <<"A", "9", "o">>,
                   <<"K", "Q", "s">>, <<"K", "J", "s">>, <<"K", "T", "s">>, <<"K", "9", "s">>,
                   <<"K", "Q", "o">>, <<"K", "J", "o">>,
                   <<"Q", "J", "s">>, <<"Q", "T", "s">>, <<"Q", "9", "s">>, <<"Q", "J", "o">>,
                   <<"J", "T", "s">>, <<"J", "9", "s">>, <<"J", "T", "o">>,
                   <<"T", "9", "s">>, <<"T", "8", "s">>, <<"9", "8", "s">>, <<"8", "7", "s">>,
                   <<"7", "6", "s">>, <<"6", "5", "s">>, <<"5", "4", "s">>}]

Positions == {"UTG", "HJ", "CO", "BTN", "SB", "BB"}

\* self.ranges after _init_default_ranges
DefaultRanges ==
    [UTG |-> [open |-> [hands |-> DefaultOpen.UTG]],
     BTN |-> [open |-> [hands |-> DefaultOpen.BTN]]]

\* dict.get(key, default)
Get(dict, key, default) == IF key \in DOMAIN dict THEN dict[key] ELSE default

\* The empty dict
EmptyDict == [key \in {} |-> {}]

get_open_range(ranges, position) ==
    Get(Get(Get(ranges, position, EmptyDict), "open", EmptyDict), "hands", {})

\* f"vs_{vs_position.value.lower()}_open"
VsKey(vs_position) ==
    CASE vs_position = "UTG" -> "vs_utg_open"
      [] vs_position = "HJ" -> "vs_hj_open"
      [] vs_position = "CO" -> "vs_co_open"
      [] vs_position = "BTN" -> "vs_btn_open"
      [] vs_position = "SB" -> "vs_sb_open"
      [] vs_position = "BB" -> "vs_bb_open"

get_3bet_range(ranges, position, vs_position) ==
    Get(Get(Get(ranges, position, EmptyDict), VsKey(vs_position), EmptyDict), "3bet", {})

get_call_range(ranges, position, vs_position) ==
    Get(Get(Get(ranges, position, EmptyDict), VsKey(vs_position), EmptyDict), "call", {})

\* PlayerProfile.unknown().vpip
UnknownVpip == 25

_expand_range(base_range, factor) ==
    LET sorted_hands == sorted_all_hands
        target_size  == IntPart(RatMul(Rat(Len(sorted_hands), 1), factor))
    IN  {sorted_hands[i] :
            i \in 1..(IF target_size < Len(sorted_hands) THEN target_size
                      ELSE Len(sorted_hands))}

_contract_range(base_range, factor) ==
    LET int_size    == IntPart(RatMul(RatMul(Rat(Cardinality(base_range), 1), factor),
                                      Rat(2, 1)))
        target_size == IF int_size > 1 THEN int_size ELSE 1
    IN  SortedPrefix(base_range, target_size)

\* estimate_opening_range: the set of the ranges it may return.
estimate_opening_range(position, profile) ==
    LET vpip       == IF profile = None THEN UnknownVpip ELSE profile[1].vpip
        base_range == get_open_range(DefaultRanges, position)
    IN  IF vpip > 30 THEN {_expand_range(base_range, Rat(vpip, 100))}
        ELSE IF vpip < 20 THEN _contract_range(base_range, Rat(vpip, 100))
        ELSE {base_range}

\* The profiles: none, or one with a VPIP of 0 to MaxVpip percent.
MaxVpip == 45

ProfileInputs == {None} \cup {Some([vpip |-> v]) : v \in 0..MaxVpip}

EstimateOpeningRange ==
    /\ ra.pc = "idle"
    /\ \E position \in Positions, profile \in ProfileInputs :
         \E hands \in estimate_opening_range(position, profile) :
           ra' = [pc |-> "opened",
                  current_range |-> get_open_range(DefaultRanges, position),
                  action |-> [street |-> "none", position |-> position,
                              profile |-> profile],
                  hands |-> RangeEstimate(hands).hands,
                  combos |-> RangeEstimate(hands).combos]
    /\ UNCHANGED <<he, eq, po, ch, ad, ls>>

SpecOpening == Init /\ [][EstimateOpeningRange]_vars

(***************************************************************************)
(* Cards as strings: hand_to_combos, cards_to_hand, range_to_combos        *)
(***************************************************************************)
\* A card string is the tuple of its rank letter and its suit letter.
suits == <<"s", "h", "d", "c">>

CardStrings == {<<r, s>> : r \in Range(RANKS), s \in Range(suits)}

\* The pairs of suit indices in the order two nested loops over suits visit them.
SuitIndexPairs ==
    [k \in 1..(Len(suits) * Len(suits)) |->
        <<((k - 1) \div Len(suits)) + 1, ((k - 1) % Len(suits)) + 1>>]

hand_to_combos(hand_str) ==
    LET hand == HandFromString(hand_str)
        combo(ix) == <<<<hand.card1, suits[ix[1]]>>, <<hand.card2, suits[ix[2]]>>>>
        chosen ==
            IF hand.card1 = hand.card2
            THEN SelectSeq(SuitIndexPairs, LAMBDA ix : ix[1] < ix[2])
            ELSE IF hand.suited
            THEN SelectSeq(SuitIndexPairs, LAMBDA ix : ix[1] = ix[2])
            ELSE SelectSeq(SuitIndexPairs, LAMBDA ix : ix[1] # ix[2])
    IN  [k \in 1..Len(chosen) |-> combo(chosen[k])]

\* cards_to_hand: rank_order
rank_order(r) == 15 - (CHOOSE i \in DOMAIN RANKS : RANKS[i] = r)

\* cards_to_hand without the swap that puts the higher rank first.
cards_to_hand_no_swap(card1, card2) ==
    IF card1[1] = card2[1] THEN <<card1[1], card2[1]>>
    ELSE IF card1[2] = card2[2] THEN <<card1[1], card2[1], "s">>
    ELSE <<card1[1], card2[1], "o">>

cards_to_hand(card1, card2) ==
    LET swap == rank_order(card1[1]) < rank_order(card2[1])
        r1 == IF swap THEN card2[1] ELSE card1[1]
        s1 == IF swap THEN card2[2] ELSE card1[2]
        r2 == IF swap THEN card1[1] ELSE card2[1]
        s2 == IF swap THEN card1[2] ELSE card2[2]
    IN  IF r1 = r2 THEN <<r1, r2>>
        ELSE IF s1 = s2 THEN <<r1, r2, "s">>
        ELSE <<r1, r2, "o">>

\* range_to_combos, inner loop, keeping a combo whose first card is not dead.
LiveCombosFirstCard(hand_combos, dead) ==
    SelectSeq(hand_combos, LAMBDA combo : combo[1] \notin dead)

\* range_to_combos, inner loop: the combos of one hand without a dead card.
LiveCombos(hand_combos, dead) ==
    SelectSeq(hand_combos, LAMBDA combo : combo[1] \notin dead /\ combo[2] \notin dead)

\* range_to_combos, the hands taken in the order the loop over the set
\* visits them.
RECURSIVE CombosInOrder(_, _)
CombosInOrder(order, dead) ==
    IF order = <<>> THEN <<>>
    ELSE LiveCombos(hand_to_combos(Head(order)), dead) \o CombosInOrder(Tail(order), dead)

\* The orders a loop may visit the hands of a set in.
Orders(hands) ==
    {order \in [1..Cardinality(hands) -> hands] : Range(order) = hands}

\* range_to_combos: the lists it may return.
range_to_combos(range_hands, dead_cards) ==
    LET dead == IF dead_cards = None \/ dead_cards[1] = <<>> THEN {}
                ELSE Range(dead_cards[1])
    IN  {CombosInOrder(order, dead) : order \in Orders(range_hands)}

\* The ranges turned into combos have at most MaxRangeHands hands of ComboPool.
MaxRangeHands == 2

ComboPool ==
    {<<"A", "A">>, <<"A", "K", "s">>, <<"A", "K", "o">>, <<"7", "2", "o">>,
     <<"2", "2">>}

DeadInputs ==
    {None, Some(<<>>), Some(<<<<"A", "s">>>>), Some(<<<<"A", "s">>, <<"K", "h">>>>),
     Some(<<<<"A", "d">>, <<"7", "c">>, <<"2", "s">>, <<"2", "h">>>>)}

RangeToCombos ==
    /\ ra.pc = "idle"
    /\ \E range_hands \in {R \in SUBSET ComboPool : Cardinality(R) <= MaxRangeHands},
          dead_cards \in DeadInputs :
         \E combos \in range_to_combos(range_hands, dead_cards) :
           ra' = [pc |-> "combos", current_range |-> range_hands,
                  action |-> [street |-> "none"], dead_cards |-> dead_cards,
                  hands |-> RangeEstimate(range_hands).hands,
                  combos |-> RangeEstimate(range_hands).combos,
                  result |-> combos]
    /\ UNCHANGED <<he, eq, po, ch, ad, ls>>

CardsToHand ==
    /\ ch.pc = "idle"
    /\ \E card1 \in CardStrings, card2 \in CardStrings :
         ch' = [pc |-> "done", fn |-> "cards_to_hand", card1 |-> card1, card2 |-> card2,
                result |-> cards_to_hand(card1, card2)]
    /\ UNCHANGED <<he, eq, po, ra, ad, ls>>

SpecCombos == Init /\ [][RangeToCombos]_vars

SpecCharts == Init /\ [][CardsToHand]_vars

(***************************************************************************)
(* GTOAdvisor                                                              *)
(***************************************************************************)
\* _get_default_solutions: ["preflop"]["open_sizing"], in big blinds
open_sizing ==
    [UTG |-> Rat(5, 2), HJ |-> Rat(5, 2), CO |-> Rat(5, 2), BTN |-> Rat(5, 2),
     SB |-> Rat(3, 1)]

\* ["preflop"]["3bet_sizing"], times the open size
threebet_sizing == [in_position |-> Rat(3, 1), out_of_position |-> Rat(7, 2)]

\* ["postflop"]["value_sizing"], of the pot
value_sizing == [thin_value |-> Rat(1, 2), strong_value |-> Rat(3, 4), nuts |-> Rat(1, 1)]

\* ["postflop"]["cbet_sizing"], of the pot
cbet_sizing ==
    [dry_board |-> Rat(33, 100), wet_board |-> Rat(67, 100), coordinated |-> Rat(3, 4)]

\* ActionRecommendation; the reasoning texts are left out.
ActionRecommendation(primary_action, confidence, ev, bet_sizing, sizing_ratio, alternatives) ==
    [primary_action |-> primary_action, confidence |-> confidence, ev |-> ev,
     bet_sizing |-> bet_sizing, sizing_ratio |-> sizing_ratio,
     alternatives |-> alternatives]

\* analyze with the operands of the profitability test exchanged.
analyze_exchanged_test(pot_size, call_amount, current_equity) ==
    [pot_odds |-> calculate_pot_odds(pot_size, call_amount),
     required_equity |-> calculate_required_equity(pot_size, call_amount),
     current_equity |-> current_equity,
     ev |-> IF current_equity = None THEN None
            ELSE Some(calculate_ev(current_equity[1], pot_size, call_amount)),
     is_profitable_call |->
         IF current_equity = None THEN None
         ELSE Some(RatLeq(current_equity[1],
                          calculate_required_equity(pot_size, call_amount)))]

\* PotOddsCalculator.analyze
analyze(pot_size, call_amount, current_equity) ==
    [pot_odds |-> calculate_pot_odds(pot_size, call_amount),
     required_equity |-> calculate_required_equity(pot_size, call_amount),
     current_equity |-> current_equity,
     ev |-> IF current_equity = None THEN None
            ELSE Some(calculate_ev(current_equity[1], pot_size, call_amount)),
     is_profitable_call |->
         IF current_equity = None THEN None
         ELSE Some(RatLeq(calculate_required_equity(pot_size, call_amount),
                          current_equity[1]))]

\* GameState.my_hand_str
my_hand_str(state) == cards_to_hand(state.my_hand[1], state.my_hand[2])

\* _get_open_recommendation looking the hand up in the range under the gun.
_get_open_recommendation_utg_range(ranges, hand, position, state) ==
    IF hand \in get_open_range(ranges, "UTG")
    THEN ActionRecommendation("RAISE_MEDIUM", Rat(1, 1), None, None,
                              Some(Get(open_sizing, position, Rat(5, 2))), <<>>)
    ELSE ActionRecommendation("FOLD", Rat(1, 1), None, None, None, <<>>)

_get_open_recommendation(ranges, hand, position, state) ==
    IF hand \in get_open_range(ranges, position)
    THEN ActionRecommendation("RAISE_MEDIUM", Rat(1, 1), None, None,
                              Some(Get(open_sizing, position, Rat(5, 2))), <<>>)
    ELSE ActionRecommendation("FOLD", Rat(1, 1), None, None, None, <<>>)

_is_in_position(my_pos, opp_pos) ==
    LET order == <<"SB", "BB", "UTG", "HJ", "CO", "BTN">>
        index(pos) == CHOOSE i \in DOMAIN order : order[i] = pos
    IN  index(my_pos) > index(opp_pos)

_get_vs_raise_recommendation(ranges, hand, position, state, profile) ==
    LET raiser_position ==
            IF state.opponent_positions # <<>> THEN state.opponent_positions[1]
            ELSE "UTG"
        threbet_range == get_3bet_range(ranges, position, raiser_position)
        call_range    == get_call_range(ranges, position, raiser_position)
    IN  IF hand \in threbet_range
        THEN LET sizing_mult ==
                     IF _is_in_position(position, raiser_position)
                     THEN threebet_sizing.in_position
                     ELSE threebet_sizing.out_of_position
             IN  ActionRecommendation("RAISE_LARGE", Rat(9, 10), None,
                                      Some(RatMul(Rat(state.to_call, 1), sizing_mult)),
                                      None, <<<<"CALL", Rat(1, 10)>>>>)
        ELSE IF hand \in call_range
        THEN ActionRecommendation("CALL", Rat(85, 100), None, None, None,
                                  <<<<"RAISE_LARGE", Rat(15, 100)>>>>)
        ELSE ActionRecommendation("FOLD", Rat(1, 1), None, None, None, <<>>)

_get_preflop_recommendation(ranges, state, profile) ==
    IF ~(state.to_call > 0)
    THEN _get_open_recommendation(ranges, my_hand_str(state), state.my_position, state)
    ELSE _get_vs_raise_recommendation(ranges, my_hand_str(state), state.my_position,
                                      state, profile)

_analyze_board_texture(board) ==
    IF board = <<>> THEN "dry_board"
    ELSE LET suit_counts == {Cardinality({i \in DOMAIN board : board[i][2] = s}) :
                                s \in {board[i][2] : i \in DOMAIN board}}
             flush_draw  == Max(suit_counts) >= 3
             rank_values == {IF board[i][1] \in Range(RANKS) THEN rank_order(board[i][1])
                             ELSE 0 : i \in DOMAIN board}
             straight_draw ==
                 Len(board) >= 3 /\ Max(rank_values) - Min(rank_values) <= 4
         IN  IF flush_draw /\ straight_draw THEN "coordinated"
             ELSE IF flush_draw \/ straight_draw THEN "wet_board"
             ELSE "dry_board"

\* _get_facing_bet_recommendation with the threshold of the betting branch, 70.
_get_facing_bet_recommendation_70(state, equity, board_texture, profile) ==
    LET pot_analysis == analyze(state.pot_size, state.to_call, Some(equity))
    IN  IF pot_analysis.is_profitable_call[1]
        THEN IF RatLess(Rat(70, 1), equity)
             THEN ActionRecommendation("RAISE_MEDIUM", Rat(7, 10), pot_analysis.ev,
                                       None, None, <<<<"CALL", Rat(3, 10)>>>>)
             ELSE ActionRecommendation("CALL", Rat(8, 10), pot_analysis.ev,
                                       None, None, <<>>)
        ELSE IF /\ profile # None /\ profile[1].fold_to_cbet > 60
                /\ RatLess(Rat(20, 1), equity)
        THEN ActionRecommendation("RAISE_MEDIUM", Rat(5, 10), None, None, None,
                                  <<<<"FOLD", Rat(4, 10)>>, <<"CALL", Rat(1, 10)>>>>)
        ELSE ActionRecommendation("FOLD", Rat(85, 100), pot_analysis.ev, None, None, <<>>)

_get_facing_bet_recommendation(state, equity, board_texture, profile) ==
    LET pot_analysis == analyze(state.pot_size, state.to_call, Some(equity))
    IN  IF pot_analysis.is_profitable_call[1]
        THEN IF RatLess(Rat(65, 1), equity)
             THEN ActionRecommendation("RAISE_MEDIUM", Rat(7, 10), pot_analysis.ev,
                                       None, None, <<<<"CALL", Rat(3, 10)>>>>)
             ELSE ActionRecommendation("CALL", Rat(8, 10), pot_analysis.ev,
                                       None, None, <<>>)
        ELSE IF /\ profile # None /\ profile[1].fold_to_cbet > 60
                /\ RatLess(Rat(20, 1), equity)
        THEN ActionRecommendation("RAISE_MEDIUM", Rat(5, 10), None, None, None,
                                  <<<<"FOLD", Rat(4, 10)>>, <<"CALL", Rat(1, 10)>>>>)
        ELSE ActionRecommendation("FOLD", Rat(85, 100), pot_analysis.ev, None, None, <<>>)

\* _get_betting_recommendation whose last branch keeps a fixed confidence.
_get_betting_recommendation_fixed_confidence(state, equity, board_texture, profile) ==
    IF RatLess(Rat(70, 1), equity)
    THEN LET sizing == value_sizing.strong_value
         IN  ActionRecommendation("BET_LARGE", Rat(85, 100), None,
                                  Some(RatMul(Rat(state.pot_size, 1), sizing)),
                                  Some(sizing), <<>>)
    ELSE IF RatLess(Rat(55, 1), equity)
    THEN LET sizing == value_sizing.thin_value
         IN  ActionRecommendation("BET_MEDIUM", Rat(6, 10), None,
                                  Some(RatMul(Rat(state.pot_size, 1), sizing)),
                                  Some(sizing), <<<<"CHECK", Rat(4, 10)>>>>)
    ELSE IF RatLess(Rat(35, 1), equity)
    THEN ActionRecommendation("CHECK", Rat(7, 10), None, None, None,
                              <<<<"BET_SMALL", Rat(2, 10)>>, <<"BET_MEDIUM", Rat(1, 10)>>>>)
    ELSE LET bluff_freq == IF profile # None /\ profile[1].fold_to_cbet > 55
                           THEN Rat(35, 100) ELSE Rat(2, 10)
         IN  ActionRecommendation("CHECK", Rat(8, 10), None, None,
                                  None, <<<<"BET_SMALL", bluff_freq>>>>)

_get_betting_recommendation(state, equity, board_texture, profile) ==
    IF RatLess(Rat(70, 1), equity)
    THEN LET sizing == value_sizing.strong_value
         IN  ActionRecommendation("BET_LARGE", Rat(85, 100), None,
                                  Some(RatMul(Rat(state.pot_size, 1), sizing)),
                                  Some(sizing), <<>>)
    ELSE IF RatLess(Rat(55, 1), equity)
    THEN LET sizing == value_sizing.thin_value
         IN  ActionRecommendation("BET_MEDIUM", Rat(6, 10), None,
                                  Some(RatMul(Rat(state.pot_size, 1), sizing)),
                                  Some(sizing), <<<<"CHECK", Rat(4, 10)>>>>)
    ELSE IF RatLess(Rat(35, 1), equity)
    THEN ActionRecommendation("CHECK", Rat(7, 10), None, None, None,
                              <<<<"BET_SMALL", Rat(2, 10)>>, <<"BET_MEDIUM", Rat(1, 10)>>>>)
    ELSE LET bluff_freq == IF profile # None /\ profile[1].fold_to_cbet > 55
                           THEN Rat(35, 100) ELSE Rat(2, 10)
             sizing     == cbet_sizing[board_texture]
         IN  ActionRecommendation("CHECK", RatSub(Rat(1, 1), bluff_freq), None, None,
                                  None, <<<<"BET_SMALL", bluff_freq>>>>)

\* _get_postflop_recommendation for the equity calculate_equity has returned
_get_postflop_recommendation(state, profile, equity) ==
    LET board_texture == _analyze_board_texture(state.board)
    IN  IF state.to_call > 0
        THEN _get_facing_bet_recommendation(state, equity, board_texture, profile)
        ELSE _get_betting_recommendation(state, equity, board_texture, profile)

\* The iterations _get_postflop_recommendation asks calculate_equity for.
AdvisorIterations == 5000

\* The win percentages calculate_equity may return are wins / iterations * 100;
\* EquityGrid + 1 evenly spread numbers of wins are taken.
EquityGrid == 20

EquityOutcomes ==
    {Percent(k * (AdvisorIterations \div EquityGrid), AdvisorIterations) :
        k \in 0..EquityGrid}

\* calculate_equity runs out of deck cards (IndexError).
DeckRunsOut(state) ==
    52 - 2 - Len(state.board) < (5 - Len(state.board)) + 2 * state.num_opponents

\* A range chart read from a file: an example with answers to an open.
LoadedRanges ==
    [BTN |-> [open |-> [hands |-> {<<"A", "A">>, <<"K", "K">>, <<"A", "K", "o">>}],
              vs_utg_open |->
                  ("3bet" :> {<<"A", "A">>, <<"K", "K">>}
                     @@ "call" :> {<<"A", "K", "o">>, <<"J", "T", "s">>})],
     SB |-> [open |-> [hands |-> {<<"A", "A">>, <<"J", "T", "s">>}]],
     BB |-> [vs_btn_open |->
                  ("3bet" :> {<<"A", "A">>, <<"A", "K", "o">>}
                     @@ "call" :> {<<"K", "K">>, <<"J", "T", "s">>})]]

ChartInputs == {DefaultRanges, LoadedRanges}

HandInputs ==
    {<<<<"A", "s">>, <<"A", "h">>>>, <<<<"K", "h">>, <<"A", "s">>>>,
     <<<<"K", "d">>, <<"K", "c">>>>, <<<<"J", "s">>, <<"T", "s">>>>,
     <<<<"7", "d">>, <<"2", "c">>>>}

AdvisorBoards ==
    {<<<<"Q", "d">>, <<"7", "c">>, <<"2", "s">>>>,
     <<<<"9", "h">>, <<"8", "h">>, <<"6", "h">>, <<"2", "s">>>>,
     <<<<"Q", "d">>, <<"J", "d">>, <<"3", "c">>, <<"3", "h">>, <<"4", "d">>>>}

StreetOf(board) ==
    CASE Len(board) = 0 -> "PREFLOP"
      [] Len(board) = 3 -> "FLOP"
      [] Len(board) = 4 -> "TURN"
      [] Len(board) = 5 -> "RIVER"

GameState(my_hand, my_position, board, pot_size, to_call, num_opponents, opponent_positions) ==
    [my_hand |-> my_hand, my_position |-> my_position, my_stack |-> 1000,
     board |-> board, pot_size |-> pot_size, to_call |-> to_call,
     num_opponents |-> num_opponents, opponent_positions |-> opponent_positions,
     street |-> StreetOf(board)]

\* Preflop states at every position, and postflop states on the button.
GameStateInputs ==
    {GameState(hd, pos, <<>>, pot, call, 1, opp) :
        hd \in HandInputs, pos \in Positions, pot \in {0, 50, 100, 300},
        call \in {0, 50, 100}, opp \in {<<>>, <<"UTG">>, <<"BTN">>}}
    \cup
    {GameState(hd, "BTN", bd, pot, call, n, <<>>) :
        hd \in {<<<<"A", "s">>, <<"A", "h">>>>, <<<<"7", "d">>, <<"2", "c">>>>},
        bd \in AdvisorBoards, pot \in {0, 50, 100, 300}, call \in {0, 50, 100},
        n \in {1, 23}}

\* No profile, or a profile with this fold-to-cbet percentage.
AdvisorProfiles == {None} \cup {Some([fold_to_cbet |-> f]) : f \in {45, 60, 70}}

\* GTOAdvisor(): the charts come from the range file or are the default ones.
ConstructAdvisor ==
    /\ ad.pc = "none"
    /\ \E ranges \in ChartInputs : ad' = [pc |-> "ready", ranges |-> ranges]
    /\ UNCHANGED <<he, eq, po, ra, ch, ls>>

\* get_recommendation on a preflop state
RecommendPreflop ==
    /\ ad.pc = "ready"
    /\ \E state \in GameStateInputs, profile \in AdvisorProfiles :
         /\ state.street = "PREFLOP"
         /\ ad' = [pc |-> "advised", ranges |-> ad.ranges, state |-> state,
                   profile |-> profile, equity |-> None,
                   rec |-> _get_preflop_recommendation(ad.ranges, state, profile)]
    /\ UNCHANGED <<he, eq, po, ra, ch, ls>>

\* get_recommendation on a postflop state: the equity is simulated first.
RecommendPostflop ==
    /\ ad.pc = "ready"
    /\ \E state \in GameStateInputs, profile \in AdvisorProfiles :
         /\ state.street # "PREFLOP"
         /\ IF DeckRunsOut(state)
            THEN ad' = [pc |-> "raised", ranges |-> ad.ranges, state |-> state,
                        profile |-> profile, error |-> "IndexError"]
            ELSE \E equity \in EquityOutcomes :
                   ad' = [pc |-> "advised", ranges |-> ad.ranges, state |-> state,
                          profile |-> profile, equity |-> Some(equity),
                          rec |-> _get_postflop_recommendation(state, profile, equity)]
    /\ UNCHANGED <<he, eq, po, ra, ch, ls>>

NextAdvisor ==
    \/ ConstructAdvisor
    \/ RecommendPreflop
    \/ RecommendPostflop

SpecAdvisor == Init /\ [][NextAdvisor]_vars

(***************************************************************************)
(* get_recommendation called twice; the generator of the random module     *)
(***************************************************************************)
\* Seeds the module-level generator may be given (random.seed, or the
\* operating system's entropy at import).
MaxSeed == 1

\* The generator moves to a new state with every call that shuffles.
GeneratorStates == 0..(MaxSeed + 2)

\* Win percentages of calculate_equity: 1500, 3000 and 4000 wins in 5000.
RepeatEquities ==
    {Percent(wins, AdvisorIterations) : wins \in {1500, 3000, 4000}}

\* What the 5000 calls of random.shuffle(deck) of one calculate_equity lead
\* to, as a function of the generator's state when the call starts: a fixed
\* function, any of these.
ShuffleTables == [GeneratorStates -> RepeatEquities]

RepeatStates ==
    {GameState(<<<<"A", "s">>, <<"A", "h">>>>, "BTN", bd, 100, call, 1, <<>>) :
        bd \in {<<>>, <<<<"Q", "d">>, <<"7", "c">>, <<"2", "s">>>>}, call \in {0, 100}}

RepeatProfiles == {None, Some([fold_to_cbet |-> 70])}

\* import random; GTOAdvisor()
ConstructWithGenerator ==
    /\ ad.pc = "none"
    /\ \E g \in 0..MaxSeed, table \in ShuffleTables :
         ad' = [pc |-> "constructed", ranges |-> DefaultRanges, random |-> g,
                shuffle |-> table, calls |-> <<>>]
    /\ UNCHANGED <<he, eq, po, ra, ch, ls>>

\* random.seed(s), by the caller between two calls
SeedRandom ==
    /\ ad.pc = "constructed" /\ Len(ad.calls) = 1
    /\ \E s \in 0..MaxSeed : ad' = [ad EXCEPT !.random = s]
    /\ UNCHANGED <<he, eq, po, ra, ch, ls>>

\* get_recommendation(game_state, opponent_profile): no random source is
\* passed; calculate_equity draws from the module-level generator.
GetRecommendation ==
    /\ ad.pc = "constructed"
    /\ \E state \in RepeatStates, profile \in RepeatProfiles :
         LET equity == ad.shuffle[ad.random]
             call ==
                 IF state.street = "PREFLOP"
                 THEN [state |-> state, profile |-> profile, generator |-> "none",
                       rec |-> _get_preflop_recommendation(ad.ranges, state, profile)]
                 ELSE [state |-> state, profile |-> profile, generator |-> "random",
                       rec |-> _get_postflop_recommendation(state, profile, equity)]
         IN  ad' = [ad EXCEPT
                      !.calls = Append(@, call),
                      !.random = IF state.street = "PREFLOP" THEN @ ELSE @ + 1,
                      !.pc = IF Len(ad.calls) = 1 THEN "repeated" ELSE @]
    /\ UNCHANGED <<he, eq, po, ra, ch, ls>>

NextRepeat ==
    \/ ConstructWithGenerator
    \/ SeedRandom
    \/ GetRecommendation

SpecRepeat == Init /\ [][NextRepeat]_vars

(***************************************************************************)
(* Construction: the range file and the solution file                      *)
(***************************************************************************)
\* json.load results, as far as the loaders look into them
JsonObject(members) == [type |-> "object", members |-> members]

JsonNull == [type |-> "null"]

JsonArray == [type |-> "array"]

\* A file that is absent, one that json.load rejects, one holding a value.
AbsentFile == [exists |-> FALSE]

UnparsableFile == [exists |-> TRUE, parses |-> FALSE]

JsonFile(data) == [exists |-> TRUE, parses |-> TRUE, data |-> data]

\* PreflopCharts.load_ranges
load_ranges(file) ==
    IF ~file.parses THEN [raised |-> "JSONDecodeError"]
    ELSE IF file.data.type # "object" THEN [raised |-> "AttributeError"]
    ELSE [raised |-> "none",
          ranges |-> Get(file.data.members, "ranges", JsonObject(EmptyDict))]

\* PreflopCharts._init_default_ranges
_init_default_ranges == [raised |-> "none", ranges |-> JsonObject(DefaultRanges)]

\* PreflopCharts.__init__ with the default data path
PreflopCharts(file) ==
    IF file.exists THEN load_ranges(file) ELSE _init_default_ranges

\* GTOAdvisor._get_default_solutions
_get_default_solutions ==
    JsonObject(
        [preflop |-> ("open_sizing" :> open_sizing @@ "3bet_sizing" :> threebet_sizing),
         postflop |-> [cbet_sizing |-> cbet_sizing, value_sizing |-> value_sizing]])

\* GTOAdvisor._load_solutions
_load_solutions(file) ==
    IF file.exists
    THEN IF ~file.parses THEN [raised |-> "JSONDecodeError"]
         ELSE [raised |-> "none", solutions |-> file.data]
    ELSE [raised |-> "none", solutions |-> _get_default_solutions]

\* Charts a range file may hold: open ranges for some of UTG and BTN.
ChartHandPool == {<<"A", "A">>, <<"7", "2", "o">>}

FileCharts ==
    UNION {[D -> {[open |-> [hands |-> S]] : S \in SUBSET ChartHandPool}] :
              D \in SUBSET {"UTG", "BTN"}}

RangeFiles ==
    {AbsentFile, UnparsableFile, JsonFile(JsonArray), JsonFile(JsonObject(EmptyDict)),
     JsonFile(JsonObject([ranges |-> JsonNull]))}
    \cup {JsonFile(JsonObject([ranges |-> JsonObject(c)])) : c \in FileCharts}

SolutionFiles ==
    {AbsentFile, UnparsableFile, JsonFile(JsonObject(EmptyDict)),
     JsonFile(_get_default_solutions)}

\* GTOAdvisor(): the charts are built first, then the solutions are loaded.
ConstructFromFiles ==
    /\ ad.pc = "none"
    /\ \E range_file \in RangeFiles, solution_file \in SolutionFiles :
         LET charts    == PreflopCharts(range_file)
             solutions == _load_solutions(solution_file)
         IN  ad' = IF charts.raised # "none"
                   THEN [pc |-> "raised", fn |-> "__init__", range_file |-> range_file,
                         solution_file |-> solution_file, error |-> charts.raised]
                   ELSE IF solutions.raised # "none"
                   THEN [pc |-> "raised", fn |-> "__init__", range_file |-> range_file,
                         solution_file |-> solution_file, error |-> solutions.raised]
                   ELSE [pc |-> "constructed", fn |-> "__init__",
                         range_file |-> range_file, solution_file |-> solution_file,
                         ranges |-> charts.ranges,
                         precomputed_solutions |-> solutions.solutions]
    /\ UNCHANGED <<he, eq, po, ra, ch, ls>>

SpecConstruct == Init /\ [][ConstructFromFiles]_vars

(***************************************************************************)
(* HandEvaluator.get_rank_percentage                                       *)
(***************************************************************************)
\* The weakest score of the evaluator (7-5-4-3-2 offsuit).
max_score == 7462

get_rank_percentage(score) ==
    RatMul(Rat(max_score - score + 1, max_score), Rat(100, 1))

\* get_rank_percentage on a score the evaluator can return
GetRankPercentage ==
    /\ he.pc = "idle"
    /\ \E score \in 1..max_score :
         he' = [pc |-> "percentage", hole_cards |-> <<>>, board |-> <<>>,
                score |-> score, result |-> Returned(get_rank_percentage(score))]
    /\ UNCHANGED <<eq, po, ra, ch, ad, ls>>

SpecPercentage == Init /\ [][GetRankPercentage]_vars

(***************************************************************************)
(* LiveSession (src/live_session.py): the commands that move the street    *)
(***************************************************************************)
\* str.upper and str.lower on the characters of a card
upper(c) ==
    CASE c = "a" -> "A" [] c = "k" -> "K" [] c = "q" -> "Q" [] c = "j" -> "J"
      [] c = "t" -> "T" [] c = "s" -> "S" [] c = "h" -> "H" [] c = "d" -> "D"
      [] c = "c" -> "C" [] OTHER -> c

lower(c) ==
    CASE c = "A" -> "a" [] c = "K" -> "k" [] c = "Q" -> "q" [] c = "J" -> "j"
      [] c = "T" -> "t" [] c = "S" -> "s" [] c = "H" -> "h" [] c = "D" -> "d"
      [] c = "C" -> "c" [] OTHER -> c

\* str.capitalize
capitalize(s) ==
    [i \in DOMAIN s |-> IF i = 1 THEN upper(s[i]) ELSE lower(s[i])]

\* LiveHand(): the fields the street commands read and write
LiveHand ==
    [hero_cards |-> <<>>, street |-> "PREFLOP", board |-> <<>>,
     current_bet |-> 0, hero_invested |-> 0, num_players |-> 2]

\* The cards typed after flop, turn and river.
CardArgs == {<<"q", "d">>, <<"9", "H">>}

\* The board stops growing in this model at this many cards.
MaxBoardCards == 6

\* _show_decision: nothing without hero cards; else the board (None when
\* empty) goes to calculate_equity, whose evaluator has no entry for more
\* than 7 cards.
_show_decision(session) ==
    IF session.hand = None \/ session.hand[1].hero_cards = <<>>
    THEN [session EXCEPT !.raised = "none"]
    ELSE [session EXCEPT
            !.shown = Some(session.hand[1].board),
            !.raised = IF Len(session.hand[1].board) > 5 THEN "KeyError" ELSE "none"]

new_hand ==
    /\ ls' = [ls EXCEPT !.hand = Some(LiveHand), !.raised = "none"]
    /\ UNCHANGED <<he, eq, po, ra, ch, ad>>

\* set_hero("BTN", ["As", "Kh"]); a hand is started if there is none.
set_hero ==
    /\ LET hand == IF ls.hand = None THEN LiveHand ELSE ls.hand[1]
       IN  ls' = [ls EXCEPT
                    !.hand = Some([hand EXCEPT
                                     !.hero_cards = <<<<"A", "s">>, <<"K", "h">>>>]),
                    !.raised = "none"]
    /\ UNCHANGED <<he, eq, po, ra, ch, ad>>

\* flop(cards) with the three cards the command loop passes
flop ==
    /\ ls.hand # None
    /\ \E cards \in [1..3 -> CardArgs] :
         ls' = _show_decision(
                 [ls EXCEPT !.hand = Some([ls.hand[1] EXCEPT
                      !.street = "FLOP",
                      !.board = [i \in 1..3 |-> capitalize(cards[i])],
                      !.current_bet = 0, !.hero_invested = 0])])
    /\ UNCHANGED <<he, eq, po, ra, ch, ad>>

turn ==
    /\ ls.hand # None
    /\ Len(ls.hand[1].board) < MaxBoardCards
    /\ \E card \in CardArgs :
         ls' = _show_decision(
                 [ls EXCEPT !.hand = Some([ls.hand[1] EXCEPT
                      !.street = "TURN",
                      !.board = Append(@, capitalize(card)),
                      !.current_bet = 0, !.hero_invested = 0])])
    /\ UNCHANGED <<he, eq, po, ra, ch, ad>>

river ==
    /\ ls.hand # None
    /\ Len(ls.hand[1].board) < MaxBoardCards
    /\ \E card \in CardArgs :
         ls' = _show_decision(
                 [ls EXCEPT !.hand = Some([ls.hand[1] EXCEPT
                      !.street = "RIVER",
                      !.board = Append(@, capitalize(card)),
                      !.current_bet = 0, !.hero_invested = 0])])
    /\ UNCHANGED <<he, eq, po, ra, ch, ad>>

NextSession ==
    \/ new_hand
    \/ set_hero
    \/ flop
    \/ turn
    \/ river

SpecSession == Init /\ [][NextSession]_vars

(***************************************************************************)
(* One narrowing of a range that holds hands of equal strength rank        *)
(***************************************************************************)
\* Two ranked hands and three hands the ranking table does not list.
TiedPool ==
    {<<"A", "A">>, <<"K", "K">>, <<"7", "2", "o">>, <<"8", "3", "o">>, <<"9", "4", "o">>}

\* estimate_range_after_action(current_range, action, position, None, profile)
NarrowRange ==
    /\ ra.pc = "idle"
    /\ \E current_range \in SUBSET TiedPool, action \in ActionInputs,
          player \in PlayerInputs :
         \E hands \in estimate_range_after_action(current_range, action,
                                                   player.position, None,
                                                   player.profile) :
           ra' = [pc |-> "narrowed", current_range |-> current_range,
                  action |-> action, player |-> player,
                  hands |-> RangeEstimate(hands).hands,
                  combos |-> RangeEstimate(hands).combos]
    /\ UNCHANGED <<he, eq, po, ch, ad, ls>>

NextOrder ==
    \/ NarrowRange
    \/ EstimateOpeningRange

SpecOrder == Init /\ [][NextOrder]_vars

(***************************************************************************)
(* PotOddsCalculator.analyze on its own                                    *)
(***************************************************************************)
\* analyze(pot_size, call_amount, current_equity), the equity given or not
Analyze ==
    /\ po.pc = "idle"
    /\ \E pot_size \in PotInputs, call_amount \in CallInputs :
         \E current_equity \in
               {None} \cup {Some(e) : e \in EquityInputs(pot_size, call_amount)} :
           po' = [pc |-> "done", fn |-> "analyze", pot_size |-> pot_size,
                  call_amount |-> call_amount, current_equity |-> current_equity,
                  result |-> analyze(pot_size, call_amount, current_equity)]
    /\ UNCHANGED <<he, eq, ra, ch, ad, ls>>

SpecAnalyze == Init /\ [][Analyze]_vars

(***************************************************************************)
(* GTOAdvisor._analyze_board_texture on its own                            *)
(***************************************************************************)
\* The cards the boards are made of, in the order they are laid out.
TexturePool ==
    <<<<"7", "s">>, <<"7", "h">>, <<"7", "d">>, <<"8", "s">>, <<"9", "s">>,
      <<"T", "c">>, <<"K", "d">>, <<"2", "s">>>>

RECURSIVE BoardOf(_)
BoardOf(indices) ==
    IF indices = {} THEN <<>>
    ELSE <<TexturePool[Min(indices)]>> \o BoardOf(indices \ {Min(indices)})

\* Boards of up to five cards.
TextureBoards ==
    {BoardOf(I) : I \in {J \in SUBSET DOMAIN TexturePool : Cardinality(J) <= 5}}

AnalyzeBoardTexture ==
    /\ ad.pc = "none"
    /\ \E board \in TextureBoards :
         ad' = [pc |-> "texture", board |-> board,
                result |-> _analyze_board_texture(board)]
    /\ UNCHANGED <<he, eq, po, ra, ch, ls>>

SpecTexture == Init /\ [][AnalyzeBoardTexture]_vars

NextEquity ==
    \/ CallCalculateEquity
    \/ EquityDeal
    \/ CallCalculateEquityVsRange
    \/ VsRangeDeal
    \/ EquityScore
    \/ EquityReturn

SpecEquity == Init /\ [][NextEquity]_vars

SpecPotOdds == Init /\ [][NextPotOdds]_vars

(***************************************************************************)
(* Specifications, one per component                                       *)
(***************************************************************************)
SpecRange == Init /\ [][NextRange]_vars

SpecOuts == Init /\ [][CalculateOuts]_vars

SpecEval == Init /\ [][Evaluate]_vars

(***************************************************************************)
(* Properties                                                              *)
(***************************************************************************)
Simulating == eq.fn \in {"calculate_equity", "calculate_equity_vs_range"}

\* calculate_equity asks for more cards than the deck has left.
TooFewCards(e) ==
    /\ e.fn = "calculate_equity"
    /\ Cardinality(SimDeck \ UsedCards(e)) < (5 - Len(e.board)) + 2 * e.num_opponents

\* No trial can be run: no iterations, no opponent combo clear of the hero's
\* and the board's cards, or too few cards.
Unresolvable(e) ==
    \/ e.iterations = 0
    \/ e.fn = "calculate_equity_vs_range" /\ e.valid_range = {}
    \/ TooFewCards(e)

\* C1: with iterations >= 1 and a valid opponent pool, every trial increments
\* exactly one of wins, ties and losses, the call returns, the iteration count
\* it reports is the requested one and is positive, and win + tie + lose = 100.
C1_TrialsTallied ==
    Simulating =>
        /\ eq.wins + eq.ties + eq.losses = eq.done
        /\ eq.pc = "raised" => Unresolvable(eq)
        /\ (eq.pc = "done" /\ ~Unresolvable(eq)) =>
              /\ eq.result.value.iterations = eq.iterations
              /\ eq.result.value.iterations > 0
              /\ RatEq(RatAdd(RatAdd(eq.result.value.win, eq.result.value.tie),
                              eq.result.value.lose), Rat(100, 1))

C1_Witness ==
    /\ eq.fn = "calculate_equity" /\ eq.pc = "done"
    /\ eq.iterations = 2 /\ eq.num_opponents = 2
    /\ eq.wins = 1 /\ eq.losses = 1
    /\ eq.result.value.iterations = 2

\* C2: in every trial the hero's hole, the completed 5-card board and the
\* opponents' holes hold pairwise different cards.
C2_NoCardDealtTwice ==
    (Simulating /\ eq.pc = "dealt") =>
        LET cards == eq.hole_cards \o eq.sim_board
        IN  /\ Len(eq.sim_board) = 5
            /\ Cardinality(Range(cards)) = Len(cards)
            /\ \A j \in DOMAIN eq.opp_holes :
                 /\ eq.opp_holes[j][1] # eq.opp_holes[j][2]
                 /\ Range(eq.opp_holes[j]) \cap Range(cards) = {}
                 /\ \A k \in DOMAIN eq.opp_holes :
                      j # k => Range(eq.opp_holes[j]) \cap Range(eq.opp_holes[k]) = {}

C2_Witness ==
    /\ eq.fn = "calculate_equity" /\ eq.pc = "dealt"
    /\ Len(eq.board) = 4 /\ Len(eq.opp_holes) = 2

\* C3: whenever no valid trial can be run, the call returns win = 50, tie = 0,
\* lose = 50 with iterations = 0 and does not raise.
C3_NeutralWhenUnresolvable ==
    (Simulating /\ eq.pc \in {"done", "raised"} /\ Unresolvable(eq)) =>
        eq.pc = "done" /\ eq.result = Neutral

\* C4: on a flop or a turn, calculate_outs returns exactly the unused cards c
\* whose score on board + [c] is strictly stronger than the score on the board,
\* and their number.
C4_OutsImproveOnTheirOwn ==
    (eq.fn = "calculate_outs" /\ eq.pc = "done" /\ Len(eq.board) \in {3, 4}) =>
        LET current == TreysEvaluate(eq.board \o eq.hole_cards)
            improving ==
                {c \in FullDeck \ UsedCards(eq) :
                    TreysEvaluate(eq.board \o <<c>> \o eq.hole_cards) < current}
        IN  /\ eq.result.value.cards = improving
            /\ eq.result.value.outs = Cardinality(improving)

BadShape(hole_cards, board) ==
    \/ Len(hole_cards) # 2
    \/ Len(board) > 5
    \/ Len(hole_cards) + Len(board) \notin 5..7

HasDuplicate(hole_cards, board) ==
    Cardinality(Range(hole_cards \o board)) < Len(hole_cards \o board)

\* C5: evaluate never returns an ordinary score for a hole list that has not
\* 2 cards, a board of more than 5, a total outside 5..7 or a repeated card.
C5_NoScoreForBadInput ==
    (he.pc = "evaluated"
        /\ (BadShape(he.hole_cards, he.board) \/ HasDuplicate(he.hole_cards, he.board)))
    => he.result.raised # "none"

\* C6: calculate_pot_odds is call / (pot + call) as a percentage when call > 0
\* and 0 when call <= 0, and calculate_required_equity returns the same value.
C6_PotOddsFormula ==
    (po.pc = "done" /\ po.fn \in {"calculate_pot_odds", "calculate_required_equity"}) =>
        /\ po.call_amount > 0 =>
             po.result.n * (po.pot_size + po.call_amount)
                 = 100 * po.call_amount * po.result.d
        /\ po.call_amount <= 0 => po.result.n = 0
        /\ po.fn = "calculate_required_equity" =>
             RatEq(po.result, calculate_pot_odds(po.pot_size, po.call_amount))

C6_Witness ==
    /\ po.pc = "done" /\ po.fn = "calculate_required_equity"
    /\ po.pot_size = 100 /\ po.call_amount = 50
    /\ po.result = [n |-> 100, d |-> 3]

\* C7: calculate_ev at an equity equal to the required equity of a call > 0 is
\* exactly 0, and so is the documented example ev(0.5, 100, 50).
C7_RequiredEquityBreaksEven ==
    (po.pc = "done" /\ po.fn = "calculate_ev" /\ po.call_amount > 0
        /\ \/ RatEq(po.equity, calculate_required_equity(po.pot_size, po.call_amount))
           \/ po.equity = Rat(1, 2) /\ po.pot_size = 100 /\ po.call_amount = 50)
    => po.result.n = 0

\* C8: a FOLD, on any street, turns every non-empty range into the empty
\* range of 0 combos.
C8_FoldEmptiesRange ==
    (ra.pc = "updated" /\ ra.action.action_type = "FOLD" /\ ra.current_range # {}) =>
        ra.hands = {} /\ ra.combos = 0

C8_Witness ==
    /\ ra.pc = "updated" /\ ra.action.action_type = "FOLD"
    /\ ra.action.street = "FLOP"
    /\ Cardinality(ra.current_range) >= 2
    /\ ra.hands = {}

\* C9: every range estimate_range_after_action returns is a subset of the
\* range passed in; in particular the empty range stays empty.
C9_NarrowingIsMonotone ==
    ra.pc = "updated" =>
        /\ ra.hands \subseteq ra.current_range
        /\ ra.current_range = {} => ra.hands = {}

C9_Witness ==
    /\ ra.pc = "updated"
    /\ ra.action.street = "PREFLOP" /\ ra.action.action_type = "RAISE"
    /\ ra.hands # {} /\ ra.hands # ra.current_range
    /\ ra.hands \subseteq ra.current_range
    /\ <<"A", "3", "s">> \in ra.hands

InMediumBand(hd) ==
    10 < get_hand_strength_rank(hd) /\ get_hand_strength_rank(hd) < 50

PreflopCall ==
    /\ ra.pc = "updated"
    /\ ra.action.street = "PREFLOP" /\ ra.action.action_type = "CALL"
    /\ ra.current_range # {}

\* C10 as stated: after a preflop CALL on a non-empty range every hand of the
\* result has a strength rank strictly between 10 and 50.
C10_CallKeepsOnlyMediumBand ==
    PreflopCall => \A hd \in ra.hands : InMediumBand(hd)

\* C10 as amended: after a preflop CALL on a non-empty range the result is the
\* hands of the input with a strength rank strictly between 10 and 50 when the
\* input has such a hand, and the input range unchanged when it has none.
C10_CallKeepsMediumBandOrInput ==
    PreflopCall =>
        IF \E hd \in ra.current_range : InMediumBand(hd)
        THEN ra.hands = {hd \in ra.current_range : InMediumBand(hd)}
        ELSE ra.hands = ra.current_range

C10_Witness ==
    /\ PreflopCall
    /\ ra.hands # {} /\ ra.hands # ra.current_range
    /\ \A hd \in ra.hands : InMediumBand(hd)
    /\ \E hd \in ra.current_range : get_hand_strength_rank(hd) = 10

InTopBand(hd) == get_hand_strength_rank(hd) <= 30

\* The suited aces with a 5, 4, 3 or 2 kicker.
BluffSubset ==
    {<<"A", "5", "s">>, <<"A", "4", "s">>, <<"A", "3", "s">>, <<"A", "2", "s">>}

PreflopRaise ==
    /\ ra.pc = "updated"
    /\ ra.action.street = "PREFLOP" /\ ra.action.action_type \in {"BET", "RAISE"}
    /\ ra.current_range # {}

InPremiumBand(hd) == get_hand_strength_rank(hd) <= 15

PreflopAllIn ==
    /\ ra.pc = "updated"
    /\ ra.action.street = "PREFLOP" /\ ra.action.action_type = "ALL_IN"
    /\ ra.current_range # {}

\* The ranges a preflop BET or RAISE may return for the range the observed
\* action was applied to.
RaiseResults ==
    UNION {estimate_range_after_action(ra.current_range, action, "UTG", None, None) :
              action \in {a \in ActionInputs :
                             a.street = "PREFLOP" /\ a.action_type \in {"BET", "RAISE"}}}

\* C12 as stated: after a preflop ALL_IN every hand of the result has a
\* strength rank <= 15 and the result is a subset of what a BET or RAISE
\* returns for the same input.
C12_AllInIsNarrowest ==
    PreflopAllIn =>
        /\ \A hd \in ra.hands : InPremiumBand(hd)
        /\ \A raised \in RaiseResults : ra.hands \subseteq raised

\* C12 as amended: after a preflop ALL_IN on a range that holds a hand of
\* strength rank <= 15 the result is exactly those hands and is a subset of
\* what a BET or RAISE returns for the same input; on a range with no such
\* hand the result is the input range unchanged.
C12_AllInIsNarrowestOrInput ==
    PreflopAllIn =>
        IF \E hd \in ra.current_range : InPremiumBand(hd)
        THEN /\ ra.hands = {hd \in ra.current_range : InPremiumBand(hd)}
             /\ \A raised \in RaiseResults : ra.hands \subseteq raised
        ELSE ra.hands = ra.current_range

C12_Witness ==
    /\ PreflopAllIn
    /\ ra.hands # {} /\ ra.hands # ra.current_range
    /\ \A hd \in ra.hands : InPremiumBand(hd)
    /\ <<"A", "3", "s">> \in ra.current_range \ ra.hands
    /\ \E raised \in RaiseResults : <<"A", "3", "s">> \in raised

PostflopBetOrRaise ==
    /\ ra.pc = "updated"
    /\ ra.action.street # "PREFLOP" /\ ra.action.action_type \in {"BET", "RAISE"}

\* The bet has an amount and a pot, and the amount is at least the pot.
RatioAtLeastOne(action) ==
    /\ action.amount # None /\ action.pot_size # None
    /\ action.pot_size[1] > 0 /\ action.amount[1] >= action.pot_size[1]

\* The bet lacks an amount or a pot to take a ratio of, or the amount is
\* below the pot.
RatioBelowOneOrMissing(action) ==
    \/ action.amount = None \/ action.pot_size = None
    \/ action.pot_size[1] <= 0 \/ action.amount[1] <= 0
    \/ action.amount[1] < action.pot_size[1]

PostflopBigBet ==
    PostflopBetOrRaise /\ RatioAtLeastOne(ra.action) /\ ra.current_range # {}

\* Every hand kept is at least as strong as every hand dropped.
KeepsStrongest ==
    /\ ra.hands \subseteq ra.current_range
    /\ \A kept \in ra.hands, dropped \in ra.current_range \ ra.hands :
         get_hand_strength_rank(kept) <= get_hand_strength_rank(dropped)

\* C13 as stated: after a postflop BET or RAISE of ratio r >= 1 on a non-empty
\* range, the result holds only the strongest hands of the input and at most
\* the fraction min(1/2, 1/(r+1)) of the input's hands, r = amount / pot.
C13_BigBetKeepsTopFraction ==
    PostflopBigBet =>
        /\ KeepsStrongest
        /\ 2 * Cardinality(ra.hands) <= Cardinality(ra.current_range)
        /\ Cardinality(ra.hands) * (ra.action.amount[1] + ra.action.pot_size[1])
              <= Cardinality(ra.current_range) * ra.action.pot_size[1]

\* C13 as amended: the result holds the max(1, int(n * min(1/2, 1/(r+1))))
\* strongest hands of an input of n hands: at least one hand is always kept.
C13_BigBetKeepsTopFractionOrOneHand ==
    PostflopBigBet =>
        LET n       == Cardinality(ra.current_range)
            half    == n \div 2
            inverse == (n * ra.action.pot_size[1])
                          \div (ra.action.amount[1] + ra.action.pot_size[1])
            int_size == IF inverse < half THEN inverse ELSE half
        IN  /\ KeepsStrongest
            /\ Cardinality(ra.hands) = IF int_size > 1 THEN int_size ELSE 1

C13_Witness ==
    /\ PostflopBigBet
    /\ ra.action.amount = Some(100) /\ ra.action.pot_size = Some(100)
    /\ Cardinality(ra.current_range) = 5 /\ Cardinality(ra.hands) = 2
    /\ <<"A", "A">> \in ra.hands

\* C14: a postflop CHECK, a postflop CALL and a postflop BET or RAISE whose
\* ratio is below 1 or cannot be taken return the set of hands passed in.
C14_WeakActionsLeaveRange ==
    (/\ ra.pc = "updated" /\ ra.action.street # "PREFLOP"
     /\ \/ ra.action.action_type \in {"CHECK", "CALL"}
        \/ /\ ra.action.action_type \in {"BET", "RAISE"}
           /\ RatioBelowOneOrMissing(ra.action))
    => ra.hands = ra.current_range

C14_Witness ==
    /\ PostflopBetOrRaise
    /\ ra.action.amount = Some(50) /\ ra.action.pot_size = Some(100)
    /\ Cardinality(ra.current_range) >= 4
    /\ ra.hands = ra.current_range

OpenedVpip ==
    IF ra.action.profile = None THEN UnknownVpip ELSE ra.action.profile[1].vpip

\* C15: the opening range of a profile with vpip > 30 contains every hand of
\* the position's base range, that of a profile with vpip < 20 is a subset of
\* the base range, and that of a profile in between is the base range.
C15_OpeningRangeScalesBase ==
    ra.pc = "opened" =>
        /\ OpenedVpip > 30 => ra.current_range \subseteq ra.hands
        /\ OpenedVpip < 20 => ra.hands \subseteq ra.current_range
        /\ (OpenedVpip >= 20 /\ OpenedVpip <= 30) => ra.hands = ra.current_range

\* The two cards of the combo at index i of the returned list.
ComboCards(i) == {ra.result[i][1], ra.result[i][2]}

DeadSet ==
    IF ra.dead_cards = None THEN {} ELSE Range(ra.dead_cards[1])

\* The two-card holdings a starting hand stands for: two suits of the rank
\* for a pair, one suit for both cards of a suited hand, two different suits
\* for an offsuit hand.
HoldingsOf(hd) ==
    {H \in {{<<hd[1], s1>>, <<hd[2], s2>>} : s1 \in Range(suits), s2 \in Range(suits)} :
        /\ Cardinality(H) = 2
        /\ \A a \in H, b \in H :
             a # b => IF Len(hd) = 3 /\ hd[3] = "s" THEN a[2] = b[2] ELSE a[2] # b[2]}

\* C16: range_to_combos returns, once each, exactly the two-card combos of
\* the range's hands that hold no dead card, and with no dead card as many
\* combos as RangeEstimate counts (6 a pair, 4 a suited, 12 an offsuit hand).
C16_CombosAvoidDeadCards ==
    ra.pc = "combos" =>
        /\ \A i \in DOMAIN ra.result :
             /\ Cardinality(ComboCards(i)) = 2
             /\ ComboCards(i) \cap DeadSet = {}
             /\ \A j \in DOMAIN ra.result : i # j => ComboCards(i) # ComboCards(j)
        /\ {ComboCards(i) : i \in DOMAIN ra.result}
              = {H \in UNION {HoldingsOf(hd) : hd \in ra.current_range} :
                    H \cap DeadSet = {}}
        /\ \A hd \in ra.current_range :
             Cardinality(HoldingsOf(hd))
                 = IF Len(hd) = 2 THEN 6 ELSE IF hd[3] = "s" THEN 4 ELSE 12
        /\ DeadSet = {} => Len(ra.result) = ra.combos

C16_Witness ==
    /\ ra.pc = "combos"
    /\ ra.current_range = {<<"A", "A">>, <<"A", "K", "o">>}
    /\ ra.dead_cards = Some(<<<<"A", "s">>, <<"K", "h">>>>)
    /\ Len(ra.result) = 10

\* The starting hand of two cards, told from the set of the two cards: the
\* rank alone for a pair, else the higher rank, the lower rank and s or o.
CanonicalHand(cards) ==
    LET hi == CHOOSE c \in cards : \A d \in cards : rank_order(c[1]) >= rank_order(d[1])
        lo == CHOOSE c \in cards : \A d \in cards : rank_order(c[1]) <= rank_order(d[1])
    IN  IF hi[1] = lo[1] THEN <<hi[1], hi[1]>>
        ELSE <<hi[1], lo[1], IF hi[2] = lo[2] THEN "s" ELSE "o">>

\* C17: for two distinct cards cards_to_hand does not depend on the order of
\* its arguments, names the higher rank first, returns one of the 169
\* starting hands, and maps every combo of hand_to_combos(h) back to h.
C17_CardsToHandCanonical ==
    (ch.pc = "done" /\ ch.fn = "cards_to_hand" /\ ch.card1 # ch.card2) =>
        /\ ch.result = CanonicalHand({ch.card1, ch.card2})
        /\ rank_order(ch.result[1]) >= rank_order(ch.result[2])
        /\ \E i \in DOMAIN _get_all_hands : _get_all_hands[i] = ch.result
        /\ \A i \in DOMAIN _get_all_hands :
             (\E k \in DOMAIN hand_to_combos(_get_all_hands[i]) :
                 hand_to_combos(_get_all_hands[i])[k] = <<ch.card1, ch.card2>>)
             => ch.result = _get_all_hands[i]

C17_Witness ==
    /\ ch.pc = "done" /\ ch.fn = "cards_to_hand"
    /\ ch.card1 = <<"K", "h">> /\ ch.card2 = <<"A", "s">>
    /\ ch.result = <<"A", "K", "o">>

AdvisedPreflop == ad.pc = "advised" /\ ad.state.street = "PREFLOP"

AdvisedPostflop == ad.pc = "advised" /\ ad.state.street # "PREFLOP"

HeroHand == CanonicalHand(Range(ad.state.my_hand))

RaiseActions == {"RAISE_SMALL", "RAISE_MEDIUM", "RAISE_LARGE"}

\* C18: preflop with nothing to call the recommendation is a raise at the
\* position's standard open sizing (3 big blinds in the small blind, 2.5
\* elsewhere) with confidence 1 if the hero's hand is in the position's open
\* range, and FOLD with confidence 1 if it is not.
C18_OpenRangeRaisesElseFolds ==
    (AdvisedPreflop /\ ad.state.to_call = 0) =>
        IF HeroHand \in get_open_range(ad.ranges, ad.state.my_position)
        THEN /\ ad.rec.primary_action \in RaiseActions
             /\ ad.rec.confidence = Rat(1, 1)
             /\ ad.rec.sizing_ratio
                   = Some(IF ad.state.my_position = "SB" THEN Rat(3, 1) ELSE Rat(5, 2))
        ELSE /\ ad.rec.primary_action = "FOLD"
             /\ ad.rec.confidence = Rat(1, 1)

C18_Witness ==
    /\ AdvisedPreflop /\ ad.state.to_call = 0
    /\ ad.state.my_position = "SB" /\ HeroHand = <<"J", "T", "s">>
    /\ ad.rec.primary_action = "RAISE_MEDIUM"
    /\ ad.rec.sizing_ratio = Some(Rat(3, 1))

\* C19: preflop facing a bet, a premium hand (AA, KK) is recommended a raise
\* as primary action at every position and with every chart.
C19_PremiumReraises ==
    (AdvisedPreflop /\ ad.state.to_call > 0
        /\ HeroHand \in {<<"A", "A">>, <<"K", "K">>})
    => ad.rec.primary_action \in RaiseActions

FacingBet == AdvisedPostflop /\ ad.state.to_call > 0

\* The equity is at least the required equity call / (pot + call).
CallIsProfitable ==
    ad.equity[1].n * (ad.state.pot_size + ad.state.to_call)
        >= 100 * ad.state.to_call * ad.equity[1].d

HasLowerFrequencyCall ==
    \E i \in DOMAIN ad.rec.alternatives :
        /\ ad.rec.alternatives[i][1] = "CALL"
        /\ RatLess(ad.rec.alternatives[i][2], ad.rec.confidence)

\* C20 as stated: postflop facing a bet, with an equity above 65 the primary
\* action is a raise and CALL is listed as an alternative of lower frequency,
\* for every pot size and call amount.
C20_HighEquityRaises ==
    (FacingBet /\ RatLess(Rat(65, 1), ad.equity[1])) =>
        ad.rec.primary_action \in RaiseActions /\ HasLowerFrequencyCall

\* C20 as amended: the same whenever the equity is also at least the required
\* equity of the call, as it is for every pot that is at least the call.
C20_HighEquityRaisesWhenProfitable ==
    /\ (FacingBet /\ RatLess(Rat(65, 1), ad.equity[1]) /\ CallIsProfitable) =>
          ad.rec.primary_action \in RaiseActions /\ HasLowerFrequencyCall
    /\ (FacingBet /\ RatLess(Rat(65, 1), ad.equity[1])
            /\ ad.state.pot_size >= ad.state.to_call) => CallIsProfitable

C20_Witness ==
    /\ FacingBet
    /\ ad.state.pot_size = 100 /\ ad.state.to_call = 50
    /\ ad.equity = Some(Rat(70, 1))
    /\ ad.rec.primary_action = "RAISE_MEDIUM"
    /\ ad.rec.alternatives = <<<<"CALL", Rat(3, 10)>>>>

\* C21: postflop facing a bet, when the equity is below the required equity of
\* the call the primary action is CALL or FOLD, whatever the profile.
C21_UnprofitableNeverRaises ==
    (FacingBet /\ ~CallIsProfitable) => ad.rec.primary_action \in {"CALL", "FOLD"}

RECURSIVE SumFrequencies(_)
SumFrequencies(alternatives) ==
    IF alternatives = <<>> THEN Rat(0, 1)
    ELSE RatAdd(Head(alternatives)[2], SumFrequencies(Tail(alternatives)))

InUnitInterval(q) == RatLeq(Rat(0, 1), q) /\ RatLeq(q, Rat(1, 1))

\* C22: every recommendation returned has a confidence in [0, 1], alternative
\* frequencies in [0, 1], and confidence plus the alternatives' frequencies is
\* at most 1.
C22_FrequenciesWithinOne ==
    ad.pc = "advised" =>
        /\ InUnitInterval(ad.rec.confidence)
        /\ \A i \in DOMAIN ad.rec.alternatives :
              InUnitInterval(ad.rec.alternatives[i][2])
        /\ RatLeq(RatAdd(ad.rec.confidence, SumFrequencies(ad.rec.alternatives)),
                  Rat(1, 1))

C22_Witness ==
    /\ AdvisedPostflop /\ ad.state.to_call = 0
    /\ ad.profile = Some([fold_to_cbet |-> 70])
    /\ ad.equity = Some(Rat(30, 1))
    /\ ad.rec.confidence = Rat(65, 100)
    /\ ad.rec.alternatives = <<<<"BET_SMALL", Rat(35, 100)>>>>

SameArguments ==
    /\ ad.calls[1].state = ad.calls[2].state
    /\ ad.calls[1].profile = ad.calls[2].profile

\* C23: two calls of get_recommendation with the same GameState and the same
\* profile return the same recommendation on every street, and no call draws
\* from the module-level generator (the call takes no random source, so no
\* seed tells two calls apart).
C23_SameArgumentsSameRecommendation ==
    ad.pc = "repeated" =>
        /\ SameArguments => ad.calls[1].rec = ad.calls[2].rec
        /\ \A i \in 1..2 : ad.calls[i].generator # "random"

\* The range file parses but holds no usable "ranges" table.
NoUsableRanges(file) ==
    /\ file.exists /\ file.parses
    /\ \/ file.data.type # "object"
       \/ "ranges" \notin DOMAIN file.data.members
       \/ file.data.members.ranges.type # "object"

Malformed(file) == file.exists /\ (~file.parses \/ NoUsableRanges(file))

\* C24: constructing the charts and the advisor never raises, and with an
\* absent or malformed range file the charts in use are the default chart,
\* whose open ranges for BTN and UTG are not empty.
C24_FallsBackToDefaultChart ==
    (ad.pc \in {"constructed", "raised"} /\ ad.fn = "__init__") =>
        /\ ad.pc # "raised"
        /\ (~ad.range_file.exists \/ Malformed(ad.range_file)) =>
              /\ ad.ranges = JsonObject(DefaultRanges)
              /\ get_open_range(ad.ranges.members, "BTN") # {}
              /\ get_open_range(ad.ranges.members, "UTG") # {}

\* C25: get_rank_percentage maps the worst score, 7462, to 0 and the best
\* score, 1, to 100, and falls strictly as the score rises.
C25_PercentageLinearOntoZeroToHundred ==
    he.pc = "percentage" =>
        /\ he.score = max_score => RatEq(he.result.value, Rat(0, 1))
        /\ he.score = 1 => RatEq(he.result.value, Rat(100, 1))
        /\ he.score < max_score =>
              RatLess(get_rank_percentage(he.score + 1), he.result.value)

\* The scores of the trial that is being classified.
TrialHeroScore == TreysEvaluate(eq.sim_board \o eq.hole_cards)

TrialOpponentScores ==
    {TreysEvaluate(eq.sim_board \o eq.opp_holes[j]) : j \in DOMAIN eq.opp_holes}

TrialClassified == eq.pc = "dealt" /\ eq'.pc = "loop" /\ eq.num_opponents >= 1

\* C26: with one opponent or more, a trial counts as a win exactly when the
\* hero's score is strictly stronger (lower) than every opponent's, as a loss
\* exactly when some opponent's score is strictly stronger than the hero's,
\* and as a tie otherwise; the comparison with the best opponent score alone
\* gives the same class.
C26_TrialClassification ==
    [][TrialClassified =>
        /\ eq'.last = "win"  <=> \A s \in TrialOpponentScores : TrialHeroScore < s
        /\ eq'.last = "loss" <=> \E s \in TrialOpponentScores : s < TrialHeroScore
        /\ eq'.last = "tie"  <=> /\ \A s \in TrialOpponentScores : TrialHeroScore <= s
                                 /\ \E s \in TrialOpponentScores : TrialHeroScore = s
        /\ eq'.last = "win"  <=> TrialHeroScore < Min(TrialOpponentScores)
        /\ eq'.last = "loss" <=> TrialHeroScore > Min(TrialOpponentScores)
        /\ eq'.wins + eq'.ties + eq'.losses = eq.wins + eq.ties + eq.losses + 1
        /\ eq'.wins   = eq.wins   + (IF eq'.last = "win"  THEN 1 ELSE 0)
        /\ eq'.losses = eq.losses + (IF eq'.last = "loss" THEN 1 ELSE 0)]_vars

C26_Witness ==
    /\ eq.fn = "calculate_equity" /\ eq.num_opponents = 2
    /\ eq.pc = "loop" /\ eq.done = 2
    /\ eq.last = "tie" /\ eq.ties = 1 /\ eq.losses = 1

\* Some suit is on the board three times or more.
HasFlushDraw(board) ==
    \E s \in Range(suits) : Cardinality({i \in DOMAIN board : board[i][2] = s}) >= 3

\* Three distinct ranks or more, within a span of four.
HasStraightDraw(board) ==
    LET values == {rank_order(board[i][1]) : i \in DOMAIN board}
    IN  Cardinality(values) >= 3 /\ Max(values) - Min(values) <= 4

\* C27: the texture is "coordinated" iff the board has a flush draw and a
\* straight draw, "wet_board" iff it has exactly one of them, "dry_board"
\* otherwise, where a straight draw needs at least 3 distinct ranks: a board
\* with fewer distinct ranks never counts as one.
C27_TextureClasses ==
    ad.pc = "texture" =>
        ad.result =
            IF HasFlushDraw(ad.board) /\ HasStraightDraw(ad.board) THEN "coordinated"
            ELSE IF HasFlushDraw(ad.board) \/ HasStraightDraw(ad.board) THEN "wet_board"
            ELSE "dry_board"

\* analyze was given a pot >= 0, a call > 0 and an equity in [0, 100].
AnalyzedCall ==
    /\ po.pc = "done" /\ po.fn = "analyze"
    /\ po.pot_size >= 0 /\ po.call_amount > 0
    /\ po.current_equity # None

\* C28: whenever analyze reports is_profitable_call = true for a pot >= 0, a
\* call > 0 and an equity in [0, 100], the ev it reports is >= 0.
C28_ProfitableCallHasNonNegativeEv ==
    (AnalyzedCall /\ po.result.is_profitable_call = Some(TRUE)) =>
        RatLeq(Rat(0, 1), po.result.ev[1])

C28_Witness ==
    /\ AnalyzedCall
    /\ po.pot_size = 100 /\ po.call_amount = 50
    /\ po.current_equity = Some(po.result.required_equity)
    /\ po.result.is_profitable_call = Some(TRUE)
    /\ RatLess(Rat(0, 1), po.result.ev[1])

\* C29: the range returned for a set of hands, an action and a profile is the
\* same for every iteration order of the set: whatever estimate_range_after_action
\* or estimate_opening_range may return on these arguments is the range that
\* was returned, also when hands of equal rank straddle the cut.
C29_ResultIndependentOfSetOrder ==
    /\ ra.pc = "narrowed" =>
          \A hands \in estimate_range_after_action(ra.current_range, ra.action,
                                                    ra.player.position, None,
                                                    ra.player.profile) :
              RangeEstimate(hands).hands = ra.hands
    /\ ra.pc = "opened" =>
          \A hands \in estimate_opening_range(ra.action.position, ra.action.profile) :
              RangeEstimate(hands).hands = ra.hands

StreetBoardLength(street) ==
    CASE street = "PREFLOP" -> 0 [] street = "FLOP" -> 3
      [] street = "TURN" -> 4 [] street = "RIVER" -> 5

\* C30: after any sequence of new_hand, flop, turn and river the board of the
\* current hand has at most 5 cards, as many as its street has (0, 3, 4, 5),
\* and the board handed to the equity calculation has 0, 3, 4 or 5 cards.
C30_BoardMatchesStreet ==
    /\ ls.hand # None =>
          /\ Len(ls.hand[1].board) <= 5
          /\ Len(ls.hand[1].board) = StreetBoardLength(ls.hand[1].street)
    /\ ls.shown # None => Len(ls.shown[1]) \in {0, 3, 4, 5}
====
